---------------------------- MODULE Spec2Model ----------------------------
(***************************************************************************)
(* Model of the coretilla backend core: the wallet sign-in protocol        *)
(* (AuthService over CacheService), the balance ledger (BalanceService),   *)
(* the deposit workflow (PaymentsService) behind the webhook endpoint      *)
(* (StripeWebhookController), the swap (FinanceService), the user profile  *)
(* (UsersService) and the lifetime of cache entries.                       *)
(*                                                                         *)
(* Concurrency: every request handler is an async function; one action of  *)
(* the model is one access of a handler to shared state (the cache, the    *)
(* database, the payment processor) together with the local code around    *)
(* it, so handlers interleave at their accesses to shared state.           *)
(* Money is counted in cents (DECIMAL(15,2) columns).                      *)
(***************************************************************************)
EXTENDS Integers, Sequences, FiniteSets, TLC

(***************************************************************************)
(* Bounds of the model.                                                    *)
(***************************************************************************)
\* number of nonces uuidv4 hands out in one run
MaxNonce == 2
\* number of rows the transactions table grows to in one run
MaxTxns == 3
\* number of values the users id sequence hands out in one run
MaxUserId == 5
\* number of times the clock advances in one run
MaxTicks == 3

(***************************************************************************)
(* Program constants.                                                      *)
(***************************************************************************)
\* /^0x[a-fA-F0-9]{40}$/
WalletHexLen == 40
\* /^0x[a-fA-F0-9]{130}$/
SigHexLen == 130
\* this.cacheService.set(cacheKey, nonce, 120)
NonceTtl == 120
\* BTC_PRICE_CACHE_TTL = 30; // 30 seconds
PriceTtl == 30

VARIABLES
    nonceStore,   \* cache: key nonce:<wallet> -> nonce (NoNonce when absent)
    nextNonce,    \* the next value uuidv4() returns
    sp,           \* the sign-in requests in flight
    issued,       \* history: <<wallet, nonce>> of every generateNonce
    why           \* history: why a wallet's key is absent / that it is live

authVars == <<nonceStore, nextNonce, sp, issued, why>>

VARIABLES
    balance,      \* users.balance, committed
    txns,         \* the transactions table, committed rows in insertion order
    lock,         \* users row lock: the database transaction holding it
    deposits,     \* the deposits table, by stripe_payment_intent_id
    intent,       \* the payment processor's state of each payment intent
    lp,           \* the ledger, deposit, webhook and swap requests in flight
    priceCache,   \* the cache entry btc_price
    transfers     \* the token transfers sent to the chain, in order

swapVars == <<priceCache, transfers>>

ledgerVars == <<balance, txns, lock, deposits, intent, lp, swapVars>>

VARIABLES
    userRows,     \* the users table: id, wallet_address, name of each row
    nextUserId,   \* the next value of the users id sequence
    up            \* the UsersService requests in flight

usersVars == <<userRows, nextUserId, up>>

VARIABLES
    now,          \* the time, in milliseconds
    ticks,        \* the number of times the clock has advanced
    ttlUnit,      \* milliseconds in one unit of the cache manager's ttl
    ttlStore,     \* cache entries with their time of writing and of expiry
    looked        \* history: age of the entry and answer of the last lookup

ttlVars == <<now, ticks, ttlUnit, ttlStore, looked>>

VARIABLES
    hook          \* history: the last request to POST /webhooks/stripe

hookVars == <<hook>>

vars == <<authVars, ledgerVars, usersVars, ttlVars, hookVars>>

(***************************************************************************)
(* Inputs of the auth protocol.                                            *)
(***************************************************************************)
Wallets == {"A1", "A2"}
WalletInputs == Wallets \cup {"", "invalid-address", "short"}
SignInProcs == {1, 2}
NoNonce == 0
Nonces == 1..MaxNonce

Rep(c, n) == [i \in 1..n |-> c]

HexDigits == {"0","1","2","3","4","5","6","7","8","9",
              "a","b","c","d","e","f","A","B","C","D","E","F"}

\* The text of a wallet-address input.
WalletText(w) ==
    CASE w = "A1" -> <<"0", "x">> \o Rep("f", WalletHexLen)
      [] w = "A2" -> <<"0", "x">> \o Rep("7", WalletHexLen)
      [] w = "" -> <<>>
      [] w = "invalid-address" ->
            <<"i","n","v","a","l","i","d","-","a","d","d","r","e","s","s">>
      [] OTHER -> <<"0", "x">> \o Rep("f", WalletHexLen - 1)

\* A signature input: its text class, and for a well-formed signature the key
\* that made it and the message it signs.
Sig(fmt, signer, msg) == [fmt |-> fmt, signer |-> signer, msg |-> msg]
SigInputs ==
    {Sig("signed", w, n) : w \in Wallets, n \in Nonces}
    \cup {Sig("empty", "none", 0), Sig("text", "none", 0), Sig("garbled", "none", 0)}

\* The text of a signature input: 65 bytes in hex for a signature ("garbled" is
\* 65 bytes that are no valid signature), the test's 'invalid-signature' else.
SigText(s) ==
    CASE s.fmt \in {"signed", "garbled"} -> <<"0", "x">> \o Rep("a", SigHexLen)
      [] s.fmt = "empty" -> <<>>
      [] OTHER -> <<"i","n","v","a","l","i","d","-",
                    "s","i","g","n","a","t","u","r","e">>

\* The requests the model sends: every well-formed pair, each malformed wallet
\* with a well-formed signature, each malformed signature with a good wallet.
SignInInputs ==
    {<<w, s>> \in WalletInputs \X SigInputs :
        \/ w \in Wallets /\ s.fmt \in {"signed", "garbled"}
        \/ w \notin Wallets /\ s = Sig("signed", "A1", 1)
        \/ w = "A1" /\ s.fmt \in {"empty", "text"}}

\* /^0x[a-fA-F0-9]{n}$/.test(text)
MatchesHex(text, n) ==
    /\ Len(text) = n + 2
    /\ text[1] = "0"
    /\ text[2] = "x"
    /\ \A i \in 3..(n + 2) : text[i] \in HexDigits


(***************************************************************************)
(* CacheService: every method catches the cache manager's error.           *)
(***************************************************************************)
\* CacheService.get: the value, or null when absent or when the read failed.
CacheGet(store, key, fault) ==
    IF fault \/ key \notin DOMAIN store THEN NoNonce ELSE store[key]

\* CacheService.set: writes unless the cache manager failed (error swallowed).
CacheSet(store, key, value, fault) ==
    IF fault \/ key \notin DOMAIN store THEN store ELSE [store EXCEPT ![key] = value]

\* A delete that does nothing.
CacheDelNoop(store, key, fault) == store

\* CacheService.del: removes unless the cache manager failed (error swallowed).
CacheDel(store, key, fault) ==
    IF fault \/ key \notin DOMAIN store THEN store ELSE [store EXCEPT ![key] = NoNonce]

\* Whether CacheService.get / del rethrow to the caller: they never do.
CacheThrows(fault) == FALSE

(***************************************************************************)
(* AuthService.signIn, piece by piece.                                     *)
(***************************************************************************)
\* Validation with the wallet-format test left out.
ValidateSignInNoWalletTest(w, s) ==
    IF Len(WalletText(w)) = 0 \/ Len(SigText(s)) = 0 THEN "BadRequest_Required"
    ELSE IF ~MatchesHex(SigText(s), SigHexLen) THEN "BadRequest_Signature"
    ELSE "ok"

\* Input validation, in the order of the code.
ValidateSignIn(w, s) ==
    IF Len(WalletText(w)) = 0 \/ Len(SigText(s)) = 0 THEN "BadRequest_Required"
    ELSE IF ~MatchesHex(WalletText(w), WalletHexLen) THEN "BadRequest_Wallet"
    ELSE IF ~MatchesHex(SigText(s), SigHexLen) THEN "BadRequest_Signature"
    ELSE "ok"

\* The validation's verdict on each request the model sends, tabulated.
RECURSIVE Tabulate(_)
Tabulate(S) ==
    IF S = {} THEN <<>>
    ELSE LET i == CHOOSE x \in S : TRUE
         IN  (i :> ValidateSignIn(i[1], i[2])) @@ Tabulate(S \ {i})

Validated == Tabulate(SignInInputs)

\* A nonce check that lets a missing nonce through to the verifier.
NonceCheckMissing(threw, nonce) ==
    IF threw THEN "Internal_CacheUnavailable" ELSE "verify"

\* What signIn does with the result of the nonce read.
NonceCheck(threw, nonce) ==
    IF threw THEN "Internal_CacheUnavailable"
    ELSE IF nonce = NoNonce THEN "Unauthorized_NonceNotFound"
    ELSE "verify"

\* A verifier that checks the signer and not the signed message.
VerifyMessageAnyMessage(address, message, s) ==
    IF s.fmt # "signed" \/ message = NoNonce THEN "throw"
    ELSE IF s.signer = address THEN "valid"
    ELSE "invalid"

\* viem's verifyMessage: throws on bytes that are no signature (or no message),
\* otherwise recovers the signer of `message` and compares it with `address`.
VerifyMessage(address, message, s) ==
    IF s.fmt # "signed" \/ message = NoNonce THEN "throw"
    ELSE IF s.signer = address /\ s.msg = message THEN "valid"
    ELSE "invalid"

\* A sign-in that goes on to the delete whatever the verifier answered.
VerifyOutcomeAlwaysDelete(v) == "del"

\* What signIn does with the verifier's answer.
VerifyOutcome(v) ==
    CASE v = "throw" -> "Unauthorized_VerifyFailed"
      [] v = "invalid" -> "Unauthorized_InvalidSignature"
      [] OTHER -> "del"

\* A delete whose failure fails the sign-in.
SignInAfterDeleteStrict(delFailed) ==
    IF delFailed THEN "Internal_Unexpected" ELSE "sign"

\* After the delete: the failure is logged, the sign-in goes on.
SignInAfterDelete(delFailed) == "sign"

\* The token's claims.
TokenPayload(w) == [sub |-> w]

(***************************************************************************)
(* The auth protocol: state and actions.                                   *)
(***************************************************************************)
NoSig == Sig("empty", "none", 0)

\* A request slot. accessed, delFailed, readAt, replay, replayDel, stale and
\* cause are history fields: they record what the request did and found.
IdleSignIn ==
    [pc |-> "idle", wallet |-> "", sig |-> NoSig, nonce |-> NoNonce,
     result |-> "none", token |-> "none", accessed |-> FALSE,
     delFailed |-> FALSE, readAt |-> 0, replay |-> FALSE, replayDel |-> FALSE,
     stale |-> FALSE, cause |-> "none"]

AuthInit ==
    /\ nonceStore = [w \in Wallets |-> NoNonce]
    /\ nextNonce = 1
    /\ sp = [p \in SignInProcs |-> IdleSignIn]
    /\ issued = {}
    /\ why = [w \in Wallets |-> "never"]

\* AuthService.generateNonce: a fresh uuid, stored under nonce:<wallet> (TTL 120).
generateNonce(w) ==
    /\ nextNonce <= MaxNonce
    /\ \E fault \in BOOLEAN :
        /\ nonceStore' = CacheSet(nonceStore, w, nextNonce, fault)
        /\ issued' = issued \cup {<<w, nextNonce>>}
        /\ why' = IF nonceStore'[w] = nextNonce
                  THEN [why EXCEPT ![w] = "live"] ELSE why
    /\ nextNonce' = nextNonce + 1
    /\ UNCHANGED sp
    /\ UNCHANGED <<ledgerVars, usersVars, ttlVars, hookVars>>

\* The cache manager drops the entry when its TTL has run out.
Expire(w) ==
    /\ nonceStore[w] # NoNonce
    /\ nonceStore' = [nonceStore EXCEPT ![w] = NoNonce]
    /\ why' = [why EXCEPT ![w] = "expired"]
    /\ UNCHANGED <<nextNonce, sp, issued>>
    /\ UNCHANGED <<ledgerVars, usersVars, ttlVars, hookVars>>

\* History: the request repeats a sign-in that has succeeded (its response not
\* yet taken away), no nonce having been issued since that sign-in read its
\* nonce.
IsReplay(w, s, needDelOk) ==
    \E q \in SignInProcs :
        /\ sp[q].pc = "done"
        /\ sp[q].result = "Success"
        /\ sp[q].wallet = w
        /\ sp[q].sig = s
        /\ sp[q].readAt = nextNonce
        /\ needDelOk => ~sp[q].delFailed

\* History: the signature is over a nonce issued for the wallet before the
\* wallet's latest generateNonce.
IsStale(w, s) ==
    \E a \in issued, b \in issued :
        /\ a[1] = w /\ b[1] = w
        /\ a[2] = s.msg
        /\ a[2] < b[2]

\* The request slots are interchangeable: a request takes the first free one.
FirstFree(p) == \A q \in SignInProcs : sp[q].pc = "idle" => ~(q < p)

\* signIn from its start to the await of the delete: input validation, the
\* nonce read and the test of its result, the verification of the signature
\* over the nonce that was read.  (Validation and verification touch nothing
\* shared: the step takes place at the cache read.)
SignInStart(p, w, s) ==
    /\ sp[p].pc = "idle"
    /\ FirstFree(p)
    /\ \E fault \in BOOLEAN :
        LET v == Validated[<<w, s>>]
            n == IF v = "ok" THEN CacheGet(nonceStore, w, fault) ELSE NoNonce
            c == IF v = "ok" THEN NonceCheck(CacheThrows(fault), n) ELSE v
            out == IF c = "verify" THEN VerifyOutcome(VerifyMessage(w, n, s)) ELSE c
            cause == IF fault THEN "fault"
                     ELSE IF w \in Wallets THEN why[w] ELSE "never"
        IN  /\ v # "ok" => ~fault
            /\ sp' = [sp EXCEPT ![p] =
                    [IdleSignIn EXCEPT
                        !.pc = IF out = "del" THEN "del" ELSE "done",
                        !.result = IF out = "del" THEN "none" ELSE out,
                        !.wallet = w,
                        !.sig = s,
                        !.nonce = n,
                        !.accessed = (v = "ok"),
                        !.readAt = IF out = "del" THEN nextNonce ELSE 0,
                        !.cause = IF v = "ok" /\ n = NoNonce THEN cause ELSE "none",
                        !.replay = IsReplay(w, s, FALSE),
                        !.replayDel = IsReplay(w, s, TRUE),
                        !.stale = IsStale(w, s)]]
    /\ UNCHANGED <<nonceStore, nextNonce, issued, why>>
    /\ UNCHANGED <<ledgerVars, usersVars, ttlVars, hookVars>>

\* signIn from the delete to its return: the nonce is deleted, best effort,
\* then the token is signed.
SignInDelete(p) ==
    /\ sp[p].pc = "del"
    /\ \E fault \in BOOLEAN, jwtFails \in BOOLEAN :
        LET w == sp[p].wallet
            next == SignInAfterDelete(fault)
            res == IF next # "sign" THEN next
                   ELSE IF jwtFails THEN "Internal_TokenFailed" ELSE "Success"
        IN  /\ nonceStore' = CacheDel(nonceStore, w, fault)
            /\ why' = IF w \in Wallets /\ nonceStore[w] # NoNonce
                         /\ nonceStore'[w] = NoNonce
                      THEN [why EXCEPT ![w] = "consumed"] ELSE why
            /\ sp' = [sp EXCEPT
                        ![p].pc = "done",
                        ![p].result = res,
                        ![p].token = IF res = "Success"
                                     THEN TokenPayload(w).sub ELSE "none",
                        ![p].readAt = IF res = "Success" THEN sp[p].readAt ELSE 0,
                        ![p].delFailed = fault]
    /\ UNCHANGED <<nextNonce, issued>>
    /\ UNCHANGED <<ledgerVars, usersVars, ttlVars, hookVars>>

\* The response has been sent; the slot serves the next request.
SignInReturn(p) ==
    /\ sp[p].pc = "done"
    /\ sp' = [sp EXCEPT ![p] = IdleSignIn]
    /\ UNCHANGED <<nonceStore, nextNonce, issued, why>>
    /\ UNCHANGED <<ledgerVars, usersVars, ttlVars, hookVars>>

AuthNext ==
    \/ \E w \in Wallets : generateNonce(w)
    \/ \E w \in Wallets : Expire(w)
    \/ \E p \in SignInProcs, i \in SignInInputs : SignInStart(p, i[1], i[2])
    \/ \E p \in SignInProcs : SignInDelete(p)
    \/ \E p \in SignInProcs : SignInReturn(p)


(***************************************************************************)
(* The database, the payment processor and the requests that use them.     *)
(***************************************************************************)
Users == {"u1", "u2"}
NoUser == "nobody"
Amounts == {1, 2}
Intents == {"pi_1"}
OtherIntent == "pi_2"
AllIntents == Intents \cup {OtherIntent}
NoIntent == "pi_unknown"
LedgerProcs == {1, 2}
NoProc == 0
NoPrice == 0

\* A request slot. read, upd and the row counts readVer and commitVer are the
\* locals of the ledger transaction; readVer and commitVer are kept as
\* history, and so is alone: no other request has been in progress since this
\* one arrived.
IdleLedger ==
    [pc |-> "idle", op |-> "none", caller |-> NoUser, user |-> NoUser,
     dep |-> "none", amount |-> 0, read |-> 0, upd |-> 0, readVer |-> 0,
     commitVer |-> 0, stripe |-> "none", result |-> "none", alone |-> FALSE,
     event |-> "none", price |-> NoPrice, cause |-> "none"]

NoDeposit == [status |-> "none", user |-> NoUser, amount |-> 0]

LedgerInit ==
    /\ balance = [u \in Users |-> 0]
    /\ txns = <<>>
    /\ lock = [u \in Users |-> NoProc]
    /\ deposits = [d \in AllIntents |-> NoDeposit]
    /\ intent = [d \in AllIntents |-> [status |-> "none", failed |-> FALSE]]
    /\ lp = [p \in LedgerProcs |-> IdleLedger]
    /\ priceCache = NoPrice
    /\ transfers = <<>>

\* The rows of one user, in insertion order.
TxnsOf(u) == SelectSeq(txns, LAMBDA r : r.user = u)

\* An insert that writes over the newest row.
InsertRowOverLast(table, row) ==
    IF table = <<>> THEN <<row>> ELSE [table EXCEPT ![Len(table)] = row]

\* prisma.transaction.create: the rows in creation order, the new one last.
InsertRow(table, row) == Append(table, row)

InFlight == {p \in LedgerProcs : lp[p].pc \notin {"idle", "done"}}

\* The model stops taking requests that may write a row when the table is
\* about to reach its bound.
CanStart(p) ==
    /\ lp[p].pc = "idle"
    /\ \A q \in LedgerProcs : lp[q].pc = "idle" => ~(q < p)
    /\ Len(txns) + Cardinality(InFlight) < MaxTxns

\* Request req arrives in slot p. History: it is alone if every other request
\* has ended, and no request that is still there is alone any more.
Started(p, req) ==
    [q \in LedgerProcs |->
        IF q = p
        THEN [req EXCEPT !.alone =
                \A r \in LedgerProcs \ {p} : lp[r].pc \in {"idle", "done"}]
        ELSE IF lp[q].pc = "idle" THEN lp[q]
        ELSE [lp[q] EXCEPT !.alone = FALSE]]

(***************************************************************************)
(* BalanceService: one interactive database transaction (READ COMMITTED).  *)
(***************************************************************************)
\* A balance check that lets every debit pass.
InsufficientNever(op, read, amount) == FALSE

\* The balance check of subtractBalance: currentBalance < amount throws.
Insufficient(op, read, amount) == op = "sub" /\ read < amount

\* An update that writes the balance it read plus the change.
UpdatedBalanceFromRead(op, current, read, amount) ==
    IF op = "sub" THEN read - amount ELSE read + amount

\* tx.user.update with { increment } / { decrement }: the database applies the
\* change to the row as it is once the row lock is held, and returns the row.
UpdatedBalance(op, current, read, amount) ==
    IF op = "sub" THEN current - amount ELSE current + amount

\* A balance_after taken from the row read at the start.
BalanceAfterFromRead(read, upd) == read

\* balance_after: updatedUser.balance.
BalanceAfter(read, upd) == upd

\* The type of the row: DEPOSIT for addBalance, WITHDRAWAL for subtractBalance.
TxnType(op) == IF op = "sub" THEN "WITHDRAWAL" ELSE "DEPOSIT"

\* The description of the row: the caller's, or the default of the operation.
Description(op, dep) ==
    IF op = "confirm" THEN <<"Deposit via Stripe", dep>>
    ELSE IF op = "wh_succeeded" THEN <<"Deposit via Stripe Webhook", dep>>
    ELSE IF op = "sub" THEN <<"Balance withdrawal", "none">>
    ELSE <<"Balance deposit", "none">>

\* How a handler ends when the ledger call it made has ended.
LedgerResult(op, outcome) ==
    IF outcome = "ok" THEN "ok"
    ELSE IF op = "confirm" THEN "BadRequest_FailedToConfirm"
    ELSE outcome

\* BalanceService.addBalance called directly by business logic.
addBalance(p, u, a) ==
    /\ CanStart(p)
    /\ lp' = Started(p,
                [IdleLedger EXCEPT !.pc = "l_read", !.op = "add", !.user = u,
                                   !.amount = a])
    /\ UNCHANGED <<authVars, usersVars, ttlVars, hookVars, swapVars, balance, txns, lock, deposits, intent>>

\* BalanceService.subtractBalance called directly by business logic.
subtractBalance(p, u, a) ==
    /\ CanStart(p)
    /\ lp' = Started(p,
                [IdleLedger EXCEPT !.pc = "l_read", !.op = "sub", !.user = u,
                                   !.amount = a])
    /\ UNCHANGED <<authVars, usersVars, ttlVars, hookVars, swapVars, balance, txns, lock, deposits, intent>>

\* tx.user.findUnique, the not-found test and, in subtractBalance, the
\* balance test.
LedgerRead(p) ==
    /\ lp[p].pc = "l_read"
    /\ LET u == lp[p].user IN
        IF u \notin Users
        THEN lp' = [lp EXCEPT ![p].pc = "done",
                        ![p].result = LedgerResult(lp[p].op, "Error_UserNotFound")]
        ELSE IF Insufficient(lp[p].op, balance[u], lp[p].amount)
        THEN lp' = [lp EXCEPT ![p].pc = "done", ![p].read = balance[u],
                        ![p].readVer = Len(TxnsOf(u)),
                        ![p].result =
                            LedgerResult(lp[p].op, "Error_InsufficientBalance")]
        ELSE lp' = [lp EXCEPT ![p].pc = "l_update", ![p].read = balance[u],
                        ![p].readVer = Len(TxnsOf(u))]
    /\ UNCHANGED <<authVars, usersVars, ttlVars, hookVars, swapVars, balance, txns, lock, deposits, intent>>

\* tx.user.update: waits for the row lock, then changes the row.
LedgerUpdate(p) ==
    /\ lp[p].pc = "l_update"
    /\ lock[lp[p].user] = NoProc
    /\ lock' = [lock EXCEPT ![lp[p].user] = p]
    /\ lp' = [lp EXCEPT
                ![p].pc = "l_commit",
                ![p].upd = UpdatedBalance(lp[p].op, balance[lp[p].user],
                                          lp[p].read, lp[p].amount)]
    /\ UNCHANGED <<authVars, usersVars, ttlVars, hookVars, swapVars, balance, txns, deposits, intent>>

\* tx.transaction.create and the commit; a failed insert rolls the update back.
LedgerCommit(p) ==
    /\ lp[p].pc = "l_commit"
    /\ \E insertFails \in BOOLEAN :
        LET u == lp[p].user IN
        IF insertFails
        THEN /\ lp' = [lp EXCEPT ![p].pc = "done",
                            ![p].result = LedgerResult(lp[p].op, "Error_Db")]
             /\ UNCHANGED <<balance, txns>>
        ELSE /\ balance' = [balance EXCEPT ![u] = lp[p].upd]
             /\ txns' = InsertRow(txns,
                    [user |-> u, type |-> TxnType(lp[p].op),
                     amount |-> lp[p].amount,
                     balance_after |-> BalanceAfter(lp[p].read, lp[p].upd),
                     description |-> Description(lp[p].op, lp[p].dep)])
             /\ lp' = [lp EXCEPT ![p].pc = "done",
                            ![p].commitVer = Len(TxnsOf(u)),
                            ![p].result = LedgerResult(lp[p].op, "ok")]
    /\ lock' = [lock EXCEPT ![lp[p].user] = NoProc]
    /\ UNCHANGED <<authVars, usersVars, ttlVars, hookVars, swapVars, deposits, intent>>

\* The response has been sent; the slot serves the next request.
LedgerReturn(p) ==
    /\ lp[p].pc = "done"
    /\ lp' = [lp EXCEPT ![p] = IdleLedger]
    /\ UNCHANGED <<authVars, usersVars, ttlVars, hookVars, swapVars, balance, txns, lock, deposits, intent>>

LedgerNext ==
    \/ \E p \in LedgerProcs, u \in Users \cup {NoUser}, a \in Amounts :
            addBalance(p, u, a)
    \/ \E p \in LedgerProcs, u \in Users \cup {NoUser}, a \in Amounts :
            subtractBalance(p, u, a)
    \/ \E p \in LedgerProcs : LedgerRead(p)
    \/ \E p \in LedgerProcs : LedgerUpdate(p)
    \/ \E p \in LedgerProcs : LedgerCommit(p)
    \/ \E p \in LedgerProcs : LedgerReturn(p)

(***************************************************************************)
(* PaymentsService: deposits, the processor's payment intent, the webhook. *)
(***************************************************************************)
EventTypes ==
    {"payment_intent.succeeded", "payment_intent.payment_failed",
     "payment_intent.created"}

\* What paymentIntents.confirm can answer for an intent that has not succeeded.
ConfirmOutcomes == {"succeeded", "requires_action", "declined"}

\* A confirm that completes the deposit whatever the processor answered.
ConfirmedStatusCompleted(stripe) == "COMPLETED"

\* The status confirmDeposit writes once the processor has answered.
ConfirmedStatus(stripe) ==
    IF stripe = "succeeded" THEN "COMPLETED" ELSE "PROCESSING"

\* A test that takes no deposit for processed.
AlreadyProcessedNever(status) == FALSE

\* The "already processed" test of both crediting paths.
AlreadyProcessed(status) == status = "COMPLETED"

\* A switch whose default branch is the payment-failed handler.
HandlerFailedByDefault(type) ==
    IF type = "payment_intent.succeeded" THEN "wh_succeeded" ELSE "wh_failed"

\* The handler the switch on event.type dispatches to.
Handler(type) ==
    IF type = "payment_intent.succeeded" THEN "wh_succeeded"
    ELSE IF type = "payment_intent.payment_failed" THEN "wh_failed"
    ELSE "wh_other"

\* A handler that leaves the status as it is.
StatusAfterFailedKeep(status) == status

\* The status handlePaymentFailed writes: FAILED, whatever the status was.
StatusAfterFailed(status) == "FAILED"

\* A credit that always goes to the first user.
CreditedUserFirst(dep) == "u1"

\* The user a completed deposit is credited to: deposit.user_id.
CreditedUser(dep) == dep.user

\* PaymentsService.createDeposit: user lookup, payment intent, PENDING row.
createDeposit(p, w, a, d) ==
    /\ CanStart(p)
    /\ deposits[d].status = "none"
    /\ \E stripeFails \in BOOLEAN :
        IF w \notin Users
        THEN /\ lp' = Started(p,
                        [IdleLedger EXCEPT !.pc = "done", !.op = "create",
                            !.caller = w, !.result = "NotFound_User"])
             /\ UNCHANGED <<deposits, intent>>
        ELSE IF stripeFails
        THEN /\ lp' = Started(p,
                        [IdleLedger EXCEPT !.pc = "done", !.op = "create",
                            !.caller = w,
                            !.result = "BadRequest_FailedToCreateIntent"])
             /\ UNCHANGED <<deposits, intent>>
        ELSE /\ intent' = [intent EXCEPT ![d].status = "open"]
             /\ deposits' = [deposits EXCEPT ![d] =
                                [status |-> "PENDING", user |-> w, amount |-> a]]
             /\ lp' = Started(p,
                        [IdleLedger EXCEPT !.pc = "done", !.op = "create",
                            !.caller = w, !.dep = d, !.amount = a,
                            !.result = "ok"])
    /\ UNCHANGED <<authVars, usersVars, ttlVars, hookVars, swapVars, balance, txns, lock>>

\* The payer completes, or fails, a payment at the processor (outside this
\* service); the processor will report it by webhook.
StripePay(d) ==
    /\ intent[d].status = "open"
    /\ \E paid \in BOOLEAN :
        intent' = IF paid THEN [intent EXCEPT ![d].status = "succeeded"]
                  ELSE [intent EXCEPT ![d].failed = TRUE]
    /\ intent' # intent
    /\ UNCHANGED <<authVars, usersVars, ttlVars, hookVars, swapVars, balance, txns, lock, deposits, lp>>

\* confirmDeposit up to its first await: the deposit is read and tested.
confirmDeposit(p, w, d) ==
    /\ CanStart(p)
    /\ LET req == [IdleLedger EXCEPT !.op = "confirm", !.caller = w, !.dep = d]
       IN
        IF d \notin AllIntents \/ deposits[d].status = "none"
        THEN lp' = Started(p,
                [req EXCEPT !.pc = "done", !.result = "NotFound_Deposit"])
        ELSE IF deposits[d].user # w
        THEN lp' = Started(p,
                [req EXCEPT !.pc = "done", !.result = "BadRequest_Unauthorized"])
        ELSE IF AlreadyProcessed(deposits[d].status)
        THEN lp' = Started(p,
                [req EXCEPT !.pc = "done",
                            !.result = "BadRequest_AlreadyProcessed"])
        ELSE lp' = Started(p,
                [req EXCEPT !.pc = "c_stripe",
                            !.user = CreditedUser(deposits[d]),
                            !.amount = deposits[d].amount])
    /\ UNCHANGED <<authVars, usersVars, ttlVars, hookVars, swapVars, balance, txns, lock, deposits, intent>>

\* StripeService.confirmPaymentIntent: retrieve, and confirm unless succeeded.
ConfirmStripe(p) ==
    /\ lp[p].pc = "c_stripe"
    /\ LET d == lp[p].dep IN
        IF intent[d].status = "succeeded"
        THEN /\ lp' = [lp EXCEPT ![p].pc = "c_update",
                                 ![p].stripe = "succeeded"]
             /\ UNCHANGED intent
        ELSE \E out \in ConfirmOutcomes :
            /\ intent' = IF out = "succeeded"
                         THEN [intent EXCEPT ![d].status = "succeeded"]
                         ELSE IF out = "declined"
                         THEN [intent EXCEPT ![d].failed = TRUE]
                         ELSE intent
            /\ lp' = IF out = "declined"
                     THEN [lp EXCEPT ![p].pc = "done",
                            ![p].result = "BadRequest_FailedToConfirmPayment"]
                     ELSE [lp EXCEPT ![p].pc = "c_update", ![p].stripe = out]
    /\ UNCHANGED <<authVars, usersVars, ttlVars, hookVars, swapVars, balance, txns, lock, deposits>>

\* confirmDeposit: the status update, then the credit if the payment succeeded.
ConfirmUpdate(p) ==
    /\ lp[p].pc = "c_update"
    /\ deposits' = [deposits EXCEPT
                        ![lp[p].dep].status = ConfirmedStatus(lp[p].stripe)]
    /\ lp' = IF lp[p].stripe = "succeeded"
             THEN [lp EXCEPT ![p].pc = "l_read"]
             ELSE [lp EXCEPT ![p].pc = "done",
                             ![p].result = "BadRequest_ConfirmationFailed"]
    /\ UNCHANGED <<authVars, usersVars, ttlVars, hookVars, swapVars, balance, txns, lock, intent>>

\* PaymentsService.handleStripeWebhook up to the first write of the handler it
\* dispatches to: the deposit is read and tested.
HandleEvent(p, type, d) ==
    /\ CanStart(p)
    /\ d \in AllIntents =>
        /\ type = "payment_intent.succeeded" => intent[d].status = "succeeded"
        /\ type = "payment_intent.payment_failed" => intent[d].failed
        /\ type = "payment_intent.created" => intent[d].status # "none"
    /\ LET known == d \in AllIntents /\ deposits[d].status # "none"
           req == [IdleLedger EXCEPT !.dep = d, !.op = Handler(type),
                                     !.event = type]
       IN
        IF Handler(type) = "wh_other" \/ ~known
        THEN lp' = Started(p,
                        [req EXCEPT !.pc = "done", !.result = "ok"])
        ELSE IF Handler(type) = "wh_failed"
        THEN lp' = Started(p, [req EXCEPT !.pc = "f_update"])
        ELSE IF AlreadyProcessed(deposits[d].status)
        THEN lp' = Started(p,
                        [req EXCEPT !.pc = "done", !.result = "ok"])
        ELSE lp' = Started(p,
                        [req EXCEPT !.pc = "w_update",
                                    !.user = CreditedUser(deposits[d]),
                                    !.amount = deposits[d].amount])
    /\ UNCHANGED <<authVars, usersVars, ttlVars, swapVars, balance, txns, lock,
                   deposits, intent>>

\* An event the processor sends, as the service receives it from the
\* controller.
handleStripeWebhook(p, type, d) ==
    /\ HandleEvent(p, type, d)
    /\ UNCHANGED hookVars

\* handlePaymentSucceeded: the status update; the credit follows.
PaymentSucceededUpdate(p) ==
    /\ lp[p].pc = "w_update"
    /\ deposits' = [deposits EXCEPT ![lp[p].dep].status = "COMPLETED"]
    /\ lp' = [lp EXCEPT ![p].pc = "l_read"]
    /\ UNCHANGED <<authVars, usersVars, ttlVars, hookVars, swapVars, balance, txns, lock, intent>>

\* handlePaymentFailed: the status update.
PaymentFailedUpdate(p) ==
    /\ lp[p].pc = "f_update"
    /\ deposits' = [deposits EXCEPT ![lp[p].dep].status =
                        StatusAfterFailed(deposits[lp[p].dep].status)]
    /\ lp' = [lp EXCEPT ![p].pc = "done", ![p].result = "ok"]
    /\ UNCHANGED <<authVars, usersVars, ttlVars, hookVars, swapVars, balance, txns, lock, intent>>

DepositNext ==
    \/ \E p \in LedgerProcs, w \in Users \cup {NoUser}, a \in Amounts,
          d \in Intents : createDeposit(p, w, a, d)
    \/ \E d \in Intents : StripePay(d)
    \/ \E p \in LedgerProcs, w \in Users, d \in Intents \cup {NoIntent} :
            confirmDeposit(p, w, d)
    \/ \E p \in LedgerProcs : ConfirmStripe(p)
    \/ \E p \in LedgerProcs : ConfirmUpdate(p)
    \/ \E p \in LedgerProcs, type \in EventTypes,
          d \in Intents \cup {NoIntent} : handleStripeWebhook(p, type, d)
    \/ \E p \in LedgerProcs : PaymentSucceededUpdate(p)
    \/ \E p \in LedgerProcs : PaymentFailedUpdate(p)
    \/ \E p \in LedgerProcs : LedgerRead(p)
    \/ \E p \in LedgerProcs : LedgerUpdate(p)
    \/ \E p \in LedgerProcs : LedgerCommit(p)
    \/ \E p \in LedgerProcs : LedgerReturn(p)

(***************************************************************************)
(* StripeWebhookController: POST /webhooks/stripe.                         *)
(***************************************************************************)
WebhookSecret == "whsec"
WebhookKeys == {WebhookSecret, "other"}
NoBody == [type |-> "none", dep |-> "none"]
NoSignature == [key |-> "none", over |-> NoBody, expired |-> FALSE]

\* The raw bodies the model posts: events about the deposit's payment intent.
WebhookEvents ==
    [type : {"payment_intent.succeeded", "payment_intent.payment_failed"},
     dep : Intents]

\* The stripe-signature headers: a timestamped signature made with some key
\* over some body, its timestamp within the tolerance or not.
WebhookSignatures ==
    [key : WebhookKeys, over : WebhookEvents, expired : BOOLEAN]

WebhookRequests ==
    ((WebhookEvents \cup {NoBody}) \X (WebhookSignatures \cup {NoSignature}))

NoHook == [body |-> NoBody, signature |-> NoSignature, result |-> "none"]

HookInit == hook = NoHook

\* A check that accepts every signature header.
ConstructWebhookEventAcceptsAll(body, signature) == "ok"

\* StripeService.constructWebhookEvent: stripe.webhooks.constructEvent
\* recomputes the signature over the raw body with the endpoint secret and
\* compares; its error becomes 'Invalid webhook signature'.
ConstructWebhookEvent(body, signature) ==
    IF /\ signature.key = WebhookSecret
       /\ signature.over = body
       /\ ~signature.expired
    THEN "ok" ELSE "BadRequest_InvalidWebhookSignature"

\* The controller's tests, in the order of the code.
WebhookVerdict(body, signature) ==
    IF body = NoBody THEN "Error_NoBody"
    ELSE IF signature = NoSignature THEN "Error_NoSignature"
    ELSE ConstructWebhookEvent(body, signature)

\* StripeWebhookController.handleStripeWebhook: the tests, the verification
\* of the signature, then PaymentsService.handleStripeWebhook with the event.
StripeWebhookController(p, body, signature) ==
    LET verdict == WebhookVerdict(body, signature) IN
        /\ hook' = [body |-> body, signature |-> signature, result |-> verdict]
        /\ IF verdict = "ok"
           THEN HandleEvent(p, body.type, body.dep)
           ELSE UNCHANGED <<authVars, ledgerVars, usersVars, ttlVars>>

WebhookNext ==
    \/ \E p \in LedgerProcs, r \in WebhookRequests :
            StripeWebhookController(p, r[1], r[2])
    \/ \E d \in Intents : StripePay(d)
    \/ \E p \in LedgerProcs : PaymentSucceededUpdate(p)
    \/ \E p \in LedgerProcs : PaymentFailedUpdate(p)
    \/ \E p \in LedgerProcs : LedgerRead(p)
    \/ \E p \in LedgerProcs : LedgerUpdate(p)
    \/ \E p \in LedgerProcs : LedgerCommit(p)
    \/ \E p \in LedgerProcs : LedgerReturn(p)

(***************************************************************************)
(* FinanceService.swap: balance test, price, token transfer, ledger debit. *)
(***************************************************************************)
\* Money in the tables is DECIMAL(15,2): the model counts it in cents. The
\* amount of a swap request is a JavaScript number that may have a third
\* fractional digit (the least amount is 0.001): the model counts it in
\* thousandths of a dollar. btc_amount is DECIMAL(20,8): the model counts a
\* quantity in units of 10^-8.
MillsPerCent == 10
QuantityDigits == 8
Prices == {50000}
SwapAmounts == {0, 4, 40000}
SwapCredits == {5000}
SwapUsers == {"u1"}
SwapWallets == SwapUsers \cup {NoUser, ""}

\* The request bodies tried: every amount for a known wallet, one amount for
\* an unknown or a missing wallet.
SwapRequests ==
    {r \in SwapWallets \X SwapAmounts : r[1] \in SwapUsers \/ r[2] = 40000}

\* A request that may send a transfer: the model bounds the transfers as it
\* bounds the rows.
CanStartSwap(p) ==
    /\ CanStart(p)
    /\ Len(transfers) + Cardinality(InFlight) < MaxTxns

\* A validation that lets every amount pass.
ValidateSwapAnyAmount(w, a) == w # ""

\* !walletAddress || !amount || amount <= 0 throws.
ValidateSwap(w, a) == w # "" /\ a # 0 /\ a > 0

\* A balance test that lets every swap pass.
SwapInsufficientNever(bal, a) == FALSE

\* user.balance.lt(amount)
SwapInsufficient(bal, a) == bal * MillsPerCent < a

\* The value a DECIMAL(15,2) column keeps of m thousandths: the nearest cent,
\* a half rounded away from zero.
RoundToCents(m) ==
    IF m >= 0 THEN (m + 5) \div MillsPerCent
    ELSE 0 - ((5 - m) \div MillsPerCent)

\* The integer part of n * 10^k / d, by long division.
RECURSIVE ScaledDiv(_, _, _)
ScaledDiv(n, d, k) ==
    IF k = 0 THEN n \div d
    ELSE (n \div d) * 10^k + ScaledDiv((n % d) * 10, d, k - 1)

\* getBitcoinPrice: the cached price if there is one, else the fetched price,
\* which is then cached. fault says which cache call throws; feed is the answer
\* of the price feed (NoPrice: the fetch fails). The result is the price, or
\* NoPrice when the method throws, and the cache entry afterwards. History:
\* cause says what threw, "cache" when a cache call threw while the feed had
\* an answer, "feed" when the feed had none.
GetBitcoinPrice(cache, fault, feed) ==
    LET threw == IF feed = NoPrice THEN "feed" ELSE "cache" IN
    IF fault = "get"
    THEN [price |-> NoPrice, cache |-> cache, cause |-> threw]
    ELSE IF cache # NoPrice
    THEN [price |-> cache, cache |-> cache, cause |-> "none"]
    ELSE IF feed = NoPrice
    THEN [price |-> NoPrice, cache |-> cache, cause |-> "feed"]
    ELSE IF fault = "set"
    THEN [price |-> NoPrice, cache |-> cache, cause |-> "cache"]
    ELSE [price |-> feed, cache |-> feed, cause |-> "none"]

\* A quantity that ignores the price.
SwapQuantityOneToOne(a, price) == a

\* btcAmount = amount / btcPriceUSD, to the eight places of btc_amount: a
\* thousandths of a dollar at price dollars a unit, the ninth place rounded.
SwapQuantity(a, price) ==
    (ScaledDiv(a, price * 1000, QuantityDigits + 1) + 5) \div 10

\* balance_after and remainingBalance: user.balance.sub(amount), from the user
\* row read before the price was fetched, as the balance_after column keeps
\* it.
SwapBalanceAfter(read, upd, a) == RoundToCents(read * MillsPerCent - a)

\* swap up to its first await: validation, user lookup, balance test.
swap(p, w, a) ==
    /\ CanStartSwap(p)
    /\ LET req == [IdleLedger EXCEPT !.op = "swap", !.caller = w, !.amount = a]
       IN
        IF ~ValidateSwap(w, a)
        THEN lp' = Started(p,
                [req EXCEPT !.pc = "done", !.result = "BadRequest_InvalidInput"])
        ELSE IF w \notin Users
        THEN lp' = Started(p,
                [req EXCEPT !.pc = "done", !.result = "NotFound_User"])
        ELSE IF SwapInsufficient(balance[w], a)
        THEN lp' = Started(p,
                [req EXCEPT !.pc = "done", !.user = w, !.read = balance[w],
                            !.readVer = Len(TxnsOf(w)),
                            !.result = "BadRequest_InsufficientBalance"])
        ELSE lp' = Started(p,
                [req EXCEPT !.pc = "s_price", !.user = w, !.read = balance[w],
                            !.readVer = Len(TxnsOf(w))])
    /\ UNCHANGED <<authVars, usersVars, ttlVars, hookVars, balance, txns, lock, deposits, intent, swapVars>>

\* swap: getBitcoinPrice; its error becomes 'Swap transaction failed'.
SwapPrice(p) ==
    /\ lp[p].pc = "s_price"
    /\ \E fault \in {"none", "get", "set"}, feed \in Prices \cup {NoPrice} :
        LET got == GetBitcoinPrice(priceCache, fault, feed) IN
            /\ priceCache' = got.cache
            /\ lp' = IF got.price = NoPrice
                     THEN [lp EXCEPT ![p].pc = "done",
                                     ![p].cause = got.cause,
                                     ![p].result = "Internal_SwapFailed"]
                     ELSE [lp EXCEPT ![p].pc = "s_transfer",
                                     ![p].price = got.price]
    /\ UNCHANGED <<authVars, usersVars, ttlVars, hookVars, balance, txns, lock, deposits, intent, transfers>>

\* The cache manager drops the price when its TTL has run out.
PriceExpire ==
    /\ priceCache # NoPrice
    /\ priceCache' = NoPrice
    /\ UNCHANGED <<authVars, usersVars, ttlVars, hookVars, balance, txns, lock, deposits, intent, lp,
                   transfers>>

\* A swap that goes on to the debit whether or not the tokens were sent.
AfterTransferAlwaysDebit(sent) == "s_update"

\* Where swap goes after executeBlockchainTransaction: on to the database
\* transaction, or, when it threw, to the catch block.
AfterTransfer(sent) == IF sent THEN "s_update" ELSE "done"

\* swap: executeBlockchainTransaction sends the tokens, or throws.
SwapTransfer(p) ==
    /\ lp[p].pc = "s_transfer"
    /\ \E sent \in BOOLEAN :
        /\ transfers' = IF sent
                        THEN Append(transfers,
                                [user |-> lp[p].user, amount |-> lp[p].amount,
                                 quantity |-> SwapQuantity(lp[p].amount,
                                                           lp[p].price)])
                        ELSE transfers
        /\ lp' = IF AfterTransfer(sent) = "done"
                 THEN [lp EXCEPT ![p].pc = "done",
                                 ![p].result = "Internal_SwapFailed"]
                 ELSE [lp EXCEPT ![p].pc = AfterTransfer(sent)]
    /\ UNCHANGED <<authVars, usersVars, ttlVars, hookVars, balance, txns, lock, deposits, intent, priceCache>>

\* swap: prisma.user.update with { decrement }, inside the transaction; the
\* balance column keeps the difference to the cent.
SwapUpdate(p) ==
    /\ lp[p].pc = "s_update"
    /\ lock[lp[p].user] = NoProc
    /\ lock' = [lock EXCEPT ![lp[p].user] = p]
    /\ lp' = [lp EXCEPT ![p].pc = "s_commit",
                        ![p].upd = RoundToCents(balance[lp[p].user] * MillsPerCent
                                                 - lp[p].amount)]
    /\ UNCHANGED <<authVars, usersVars, ttlVars, hookVars, balance, txns, deposits, intent, swapVars>>

\* A failed transaction that keeps its decrement.
SwapRolledBackKeepsDecrement(bal, upd) == upd

\* prisma.$transaction whose callback threw: the decrement is undone, the
\* balance is the committed one.
SwapRolledBack(bal, upd) == bal

\* swap: prisma.transaction.create and the commit; a failed insert rolls the
\* decrement back.
SwapCommit(p) ==
    /\ lp[p].pc = "s_commit"
    /\ \E insertFails \in BOOLEAN :
        LET u == lp[p].user IN
        IF insertFails
        THEN /\ lp' = [lp EXCEPT ![p].pc = "done",
                                 ![p].result = "Internal_SwapFailed"]
             /\ balance' = [balance EXCEPT
                                ![u] = SwapRolledBack(balance[u], lp[p].upd)]
             /\ UNCHANGED txns
        ELSE /\ balance' = [balance EXCEPT ![u] = lp[p].upd]
             /\ txns' = InsertRow(txns,
                    [user |-> u, type |-> "SWAP",
                     amount |-> RoundToCents(lp[p].amount),
                     balance_after |->
                        SwapBalanceAfter(lp[p].read, lp[p].upd, lp[p].amount),
                     description |-> <<"Swap USD to BTC", "none">>,
                     btc_amount |-> SwapQuantity(lp[p].amount, lp[p].price),
                     btc_price |-> lp[p].price])
             /\ lp' = [lp EXCEPT ![p].pc = "done",
                                 ![p].commitVer = Len(TxnsOf(u)),
                                 ![p].result = "ok"]
    /\ lock' = [lock EXCEPT ![lp[p].user] = NoProc]
    /\ UNCHANGED <<authVars, usersVars, ttlVars, hookVars, deposits, intent, swapVars>>

SwapNext ==
    \/ \E p \in LedgerProcs, r \in SwapRequests : swap(p, r[1], r[2])
    \/ \E p \in LedgerProcs : SwapPrice(p)
    \/ PriceExpire
    \/ \E p \in LedgerProcs : SwapTransfer(p)
    \/ \E p \in LedgerProcs : SwapUpdate(p)
    \/ \E p \in LedgerProcs : SwapCommit(p)
    \/ \E p \in LedgerProcs, u \in SwapUsers, a \in SwapCredits :
            addBalance(p, u, a)
    \/ \E p \in LedgerProcs : LedgerRead(p)
    \/ \E p \in LedgerProcs : LedgerUpdate(p)
    \/ \E p \in LedgerProcs : LedgerCommit(p)
    \/ \E p \in LedgerProcs : LedgerReturn(p)

(***************************************************************************)
(* UsersService: the profile of the caller, created at the first request.  *)
(***************************************************************************)
NewWallets == {"w3", "w4"}
UserWallets == {"u1"} \cup NewWallets
Names == {"ann"}
UserProcs == {1, 2}

\* name: `user-${walletAddress}`
DefaultName(w) == <<"user-", w>>

IdleUser ==
    [pc |-> "idle", op |-> "none", wallet |-> NoUser, name |-> "none",
     ret |-> 0, retBalance |-> 0, result |-> "none", created |-> FALSE,
     raced |-> FALSE]

\* The users of the ledger have their rows.
UsersInit ==
    /\ userRows = {[id |-> 1, wallet |-> "u1", name |-> DefaultName("u1")],
                   [id |-> 2, wallet |-> "u2", name |-> DefaultName("u2")]}
    /\ nextUserId = 3
    /\ up = [p \in UserProcs |-> IdleUser]

\* prisma.user.findUnique({ where: { wallet_address } }): the rows found.
FindUnique(rows, w) == {r \in rows : r.wallet = w}

\* The balance column of a row: users.balance of a ledger user; a row created
\* here has the column's DEFAULT 0, which nothing in this part changes.
BalanceColumn(w) == IF w \in DOMAIN balance THEN balance[w] ELSE 0

\* An index that lets every insert pass.
UniqueViolationNever(rows, w) == FALSE

\* users_wallet_address_key: the insert of a second row with the wallet
\* address fails (P2002).
UniqueViolation(rows, w) == FindUnique(rows, w) # {}

\* An update that rewrites the wallet address as well.
UpdatedRowWithWallet(row, name) == [row EXCEPT !.name = name, !.wallet = name]

\* prisma.user.update({ data: updateUserDto }): the DTO holds the name only.
UpdatedRow(row, name) == [row EXCEPT !.name = name]

UsersInFlight == {p \in UserProcs : up[p].pc \notin {"idle", "done"}}

CanStartUser(p) ==
    /\ up[p].pc = "idle"
    /\ \A q \in UserProcs : up[q].pc = "idle" => ~(q < p)

\* getCurrentUserOrCreate up to its first await: the lookup of the user.
getCurrentUserOrCreate(p, w) ==
    /\ CanStartUser(p)
    /\ nextUserId + Cardinality(UsersInFlight) <= MaxUserId
    /\ LET req == [IdleUser EXCEPT !.op = "get", !.wallet = w]
           found == FindUnique(userRows, w)
       IN
        IF found # {}
        THEN \E r \in found :
                up' = [up EXCEPT ![p] =
                        [req EXCEPT !.pc = "done", !.ret = r.id,
                                    !.retBalance = BalanceColumn(w),
                                    !.result = "ok"]]
        ELSE up' = [up EXCEPT ![p] = [req EXCEPT !.pc = "u_create"]]
    /\ UNCHANGED <<authVars, ledgerVars, ttlVars, hookVars, userRows, nextUserId>>

\* getCurrentUserOrCreate: prisma.user.create; P2002 leads to the second
\* lookup, any other error is rethrown.
UserCreate(p) ==
    /\ up[p].pc = "u_create"
    /\ \E dbFails \in BOOLEAN :
        LET w == up[p].wallet IN
        IF dbFails
        THEN /\ up' = [up EXCEPT ![p].pc = "done", ![p].result = "Error_Db"]
             /\ UNCHANGED <<userRows, nextUserId>>
        ELSE IF UniqueViolation(userRows, w)
        THEN /\ up' = [up EXCEPT ![p].pc = "u_reread", ![p].raced = TRUE]
             /\ nextUserId' = nextUserId + 1
             /\ UNCHANGED userRows
        ELSE /\ userRows' = userRows \cup
                    {[id |-> nextUserId, wallet |-> w, name |-> DefaultName(w)]}
             /\ nextUserId' = nextUserId + 1
             /\ up' = [up EXCEPT ![p].pc = "done", ![p].ret = nextUserId,
                                 ![p].retBalance = 0, ![p].created = TRUE,
                                 ![p].result = "ok"]
    /\ UNCHANGED <<authVars, ledgerVars, ttlVars, hookVars>>

\* getCurrentUserOrCreate, after P2002: the user the other request created.
UserReread(p) ==
    /\ up[p].pc = "u_reread"
    /\ LET found == FindUnique(userRows, up[p].wallet) IN
        IF found # {}
        THEN \E r \in found :
                up' = [up EXCEPT ![p].pc = "done", ![p].ret = r.id,
                                 ![p].retBalance = BalanceColumn(r.wallet),
                                 ![p].result = "ok"]
        ELSE up' = [up EXCEPT ![p].pc = "done",
                              ![p].result = "Conflict_WalletExists"]
    /\ UNCHANGED <<authVars, ledgerVars, ttlVars, hookVars, userRows, nextUserId>>

\* UsersService.updateCurrentUser: one prisma.user.update by wallet address;
\* P2025 becomes 'User not found', any other error is rethrown.
updateCurrentUser(p, w, name) ==
    /\ CanStartUser(p)
    /\ LET req == [IdleUser EXCEPT !.op = "update", !.wallet = w,
                                   !.name = name]
           found == FindUnique(userRows, w)
       IN
        \E dbFails \in BOOLEAN :
        IF dbFails
        THEN /\ up' = [up EXCEPT ![p] =
                        [req EXCEPT !.pc = "done", !.result = "Error_Db"]]
             /\ UNCHANGED userRows
        ELSE IF found = {}
        THEN /\ up' = [up EXCEPT ![p] =
                        [req EXCEPT !.pc = "done", !.result = "NotFound_User"]]
             /\ UNCHANGED userRows
        ELSE /\ userRows' = (userRows \ found)
                                \cup {UpdatedRow(r, name) : r \in found}
             /\ \E r \in found :
                    up' = [up EXCEPT ![p] =
                            [req EXCEPT !.pc = "done", !.ret = r.id,
                                        !.retBalance = BalanceColumn(w),
                                        !.result = "ok"]]
    /\ UNCHANGED <<authVars, ledgerVars, ttlVars, hookVars, nextUserId>>

\* The response has been sent; the slot serves the next request.
UserReturn(p) ==
    /\ up[p].pc = "done"
    /\ up' = [up EXCEPT ![p] = IdleUser]
    /\ UNCHANGED <<authVars, ledgerVars, ttlVars, hookVars, userRows, nextUserId>>

UsersNext ==
    \/ \E p \in UserProcs, w \in UserWallets : getCurrentUserOrCreate(p, w)
    \/ \E p \in UserProcs : UserCreate(p)
    \/ \E p \in UserProcs : UserReread(p)
    \/ \E p \in UserProcs, w \in UserWallets, n \in Names :
            updateCurrentUser(p, w, n)
    \/ \E p \in UserProcs : UserReturn(p)

(***************************************************************************)
(* The cache manager's clock: how long an entry written with a ttl lives.  *)
(***************************************************************************)
TtlKeys == {"nonce", "btc_price"}
\* The unit the cache manager reads its ttl argument in is fixed by the
\* library version of the build: seconds, or milliseconds.
TtlUnits == {1, 1000}
NoUnit == 0
\* The advances of the clock the model takes, in milliseconds.
TickMs == {500, 60000, 100000}
NoEntry == [setAt |-> 0, expiresAt |-> 0, set |-> FALSE]
NoLook == [age |-> 0, hit |-> FALSE, done |-> FALSE]

TtlInit ==
    /\ now = 0
    /\ ticks = 0
    /\ ttlUnit = NoUnit
    /\ ttlStore = [k \in TtlKeys |-> NoEntry]
    /\ looked = [k \in TtlKeys |-> NoLook]

\* CacheService.set hands its ttl to cacheManager.set as it is.
CacheServiceTtl(ttl) == ttl

\* cacheManager.set(key, value, ttl): the entry lives ttl units from now.
TtlSet(key, ttl) ==
    /\ \E unit \in IF ttlUnit = NoUnit THEN TtlUnits ELSE {ttlUnit} :
        /\ ttlUnit' = unit
        /\ ttlStore' = [ttlStore EXCEPT ![key] =
                [setAt |-> now, expiresAt |-> now + ttl * unit, set |-> TRUE]]
    /\ UNCHANGED <<authVars, ledgerVars, usersVars, hookVars, now, ticks, looked>>

\* generateNonce: this.cacheService.set(cacheKey, nonce, 120).
NonceSet == TtlSet("nonce", CacheServiceTtl(NonceTtl))

\* getBitcoinPrice: this.cacheManager.set(key, priceData, 30 * 1000).
PriceSet == TtlSet("btc_price", PriceTtl * 1000)

\* cacheManager.get(key) of an entry written before: the value while the
\* entry has not expired.
TtlGet(key) ==
    /\ ttlStore[key].set
    /\ looked' = [looked EXCEPT ![key] =
                    [age |-> now - ttlStore[key].setAt,
                     hit |-> now < ttlStore[key].expiresAt, done |-> TRUE]]
    /\ UNCHANGED <<authVars, ledgerVars, usersVars, hookVars, now, ticks, ttlUnit,
                   ttlStore>>

\* Time passes.
Tick(d) ==
    /\ ticks < MaxTicks
    /\ now' = now + d
    /\ ticks' = ticks + 1
    /\ UNCHANGED <<authVars, ledgerVars, usersVars, hookVars, ttlUnit, ttlStore, looked>>

TtlNext ==
    \/ NonceSet
    \/ PriceSet
    \/ \E k \in TtlKeys : TtlGet(k)
    \/ \E d \in TickMs : Tick(d)

(***************************************************************************)
(* Specifications: each runs one part of the system, the rest at rest.     *)
(***************************************************************************)
Init == AuthInit /\ LedgerInit /\ UsersInit /\ TtlInit /\ HookInit

SpecAuth == Init /\ [][AuthNext]_vars

SpecLedger == Init /\ [][LedgerNext]_vars

SpecDeposit == Init /\ [][DepositNext]_vars

SpecSwap == Init /\ [][SwapNext]_vars

\* Two users with a deposit each, both created and paid for at the processor
\* (the second after a payment that failed), neither confirmed yet.
InitTwoDeposits ==
    /\ AuthInit
    /\ UsersInit
    /\ TtlInit
    /\ HookInit
    /\ balance = [u \in Users |-> 0]
    /\ txns = <<>>
    /\ lock = [u \in Users |-> NoProc]
    /\ deposits = [d \in AllIntents |->
                        IF d = OtherIntent
                        THEN [status |-> "PENDING", user |-> "u2", amount |-> 2]
                        ELSE [status |-> "PENDING", user |-> "u1", amount |-> 1]]
    /\ intent = [d \in AllIntents |->
                    [status |-> "succeeded", failed |-> d = OtherIntent]]
    /\ lp = [p \in LedgerProcs |-> IdleLedger]
    /\ priceCache = NoPrice
    /\ transfers = <<>>

\* Confirms, webhooks and debits for the two users and their deposits.
TwoDepositsNext ==
    \/ \E p \in LedgerProcs, w \in Users, d \in AllIntents :
            confirmDeposit(p, w, d)
    \/ \E p \in LedgerProcs : ConfirmStripe(p)
    \/ \E p \in LedgerProcs : ConfirmUpdate(p)
    \/ \E p \in LedgerProcs, type \in EventTypes, d \in AllIntents :
            handleStripeWebhook(p, type, d)
    \/ \E p \in LedgerProcs : PaymentSucceededUpdate(p)
    \/ \E p \in LedgerProcs : PaymentFailedUpdate(p)
    \/ \E p \in LedgerProcs, u \in Users : subtractBalance(p, u, 1)
    \/ \E p \in LedgerProcs : LedgerRead(p)
    \/ \E p \in LedgerProcs : LedgerUpdate(p)
    \/ \E p \in LedgerProcs : LedgerCommit(p)
    \/ \E p \in LedgerProcs : LedgerReturn(p)

SpecTwoDeposits == InitTwoDeposits /\ [][TwoDepositsNext]_vars

SpecUsers == Init /\ [][UsersNext]_vars

SpecTtl == Init /\ [][TtlNext]_vars

\* Profile updates beside credits of the first user, who has a deposit open.
ProfileNext ==
    \/ \E p \in UserProcs, w \in UserWallets, n \in Names :
            updateCurrentUser(p, w, n)
    \/ \E p \in UserProcs : UserReturn(p)
    \/ \E p \in LedgerProcs : addBalance(p, "u1", 1)
    \/ \E p \in LedgerProcs : LedgerRead(p)
    \/ \E p \in LedgerProcs : LedgerUpdate(p)
    \/ \E p \in LedgerProcs : LedgerCommit(p)
    \/ \E p \in LedgerProcs : LedgerReturn(p)

SpecProfile == InitTwoDeposits /\ [][ProfileNext]_vars

\* One deposit of the first user, created and not yet paid for.
InitOpenDeposit ==
    /\ AuthInit
    /\ UsersInit
    /\ TtlInit
    /\ HookInit
    /\ balance = [u \in Users |-> 0]
    /\ txns = <<>>
    /\ lock = [u \in Users |-> NoProc]
    /\ deposits = [d \in AllIntents |->
                        IF d \in Intents
                        THEN [status |-> "PENDING", user |-> "u1", amount |-> 1]
                        ELSE NoDeposit]
    /\ intent = [d \in AllIntents |->
                    [status |-> IF d \in Intents THEN "open" ELSE "none",
                     failed |-> FALSE]]
    /\ lp = [p \in LedgerProcs |-> IdleLedger]
    /\ priceCache = NoPrice
    /\ transfers = <<>>

\* The owner confirms, the payer pays, the processor reports the payment.
ProcessingNext ==
    \/ \E p \in LedgerProcs, d \in Intents : confirmDeposit(p, "u1", d)
    \/ \E p \in LedgerProcs : ConfirmStripe(p)
    \/ \E p \in LedgerProcs : ConfirmUpdate(p)
    \/ \E d \in Intents : StripePay(d)
    \/ \E p \in LedgerProcs, d \in Intents :
            handleStripeWebhook(p, "payment_intent.succeeded", d)
    \/ \E p \in LedgerProcs : PaymentSucceededUpdate(p)
    \/ \E p \in LedgerProcs : LedgerRead(p)
    \/ \E p \in LedgerProcs : LedgerUpdate(p)
    \/ \E p \in LedgerProcs : LedgerCommit(p)
    \/ \E p \in LedgerProcs : LedgerReturn(p)

\* The processor delivers the event again and again, every handler that has
\* been started goes on after each await, a request waiting for the row lock
\* gets it, and the database does not fail for ever.
ProcessingFairness ==
    /\ \A d \in Intents :
        SF_vars(\E p \in LedgerProcs :
                    handleStripeWebhook(p, "payment_intent.succeeded", d))
    /\ \A p \in LedgerProcs :
        /\ WF_vars(ConfirmStripe(p))
        /\ WF_vars(ConfirmUpdate(p))
        /\ WF_vars(PaymentSucceededUpdate(p))
        /\ WF_vars(LedgerRead(p))
        /\ SF_vars(LedgerUpdate(p))
        /\ WF_vars(LedgerCommit(p))
        /\ SF_vars(LedgerCommit(p) /\ lp'[p].result = "ok")
        /\ WF_vars(LedgerReturn(p))

\* The webhook endpoint, the deposit created and not yet paid for.
SpecWebhook == InitOpenDeposit /\ [][WebhookNext]_vars

SpecProcessing == InitOpenDeposit /\ [][ProcessingNext]_vars
                    /\ ProcessingFairness

(***************************************************************************)
(* Properties of the auth protocol (checked under SpecAuth).               *)
(***************************************************************************)
Done(p) == sp[p].pc = "done"

\* What a request's input is, by its text: the wallet inputs of Wallets are the
\* ones made of 0x and 40 hex digits, the signed and garbled signatures the
\* ones made of 0x and 130 hex digits.
EmptyInput(p) == sp[p].wallet = "" \/ sp[p].sig.fmt = "empty"
BadWallet(p) == sp[p].wallet \notin Wallets
BadSigText(p) == sp[p].sig.fmt \notin {"signed", "garbled"}

C5_NonceUsedOnce ==
    \A p \in SignInProcs, q \in SignInProcs :
        (/\ p # q
         /\ Done(p) /\ sp[p].result = "Success" /\ ~sp[p].delFailed
         /\ Done(q) /\ sp[q].result = "Success" /\ ~sp[q].delFailed
         /\ sp[p].wallet = sp[q].wallet)
        => sp[p].nonce # sp[q].nonce

\* C6: once generateNonce has been called again for a wallet, a sign-in with a
\* signature over the wallet's earlier nonce does not succeed.
C6_NewNonceInvalidatesOld ==
    \A p \in SignInProcs :
        Done(p) /\ sp[p].stale => sp[p].result # "Success"

\* C7: a sign-in with an empty wallet or signature, a wallet that is not 0x and
\* 40 hex digits or a signature that is not 0x and 130 hex digits ends with the
\* validation error and has touched neither the nonce store nor the token
\* issuer.
C7_ValidationBeforeStore ==
    \A p \in SignInProcs :
        (sp[p].pc # "idle" /\ (EmptyInput(p) \/ BadWallet(p) \/ BadSigText(p)))
        => /\ Done(p)
           /\ ~sp[p].accessed
           /\ sp[p].nonce = NoNonce
           /\ sp[p].token = "none"
           /\ sp[p].result =
                IF EmptyInput(p) THEN "BadRequest_Required"
                ELSE IF BadWallet(p) THEN "BadRequest_Wallet"
                ELSE "BadRequest_Signature"

C7_Witness ==
    /\ \E p \in SignInProcs :
        /\ Done(p) /\ sp[p].wallet = "short" /\ sp[p].result = "BadRequest_Wallet"
        /\ nonceStore["A1"] # NoNonce
    /\ \E q \in SignInProcs :
        Done(q) /\ sp[q].sig.fmt = "text" /\ sp[q].result = "BadRequest_Signature"

\* C8: a sign-in that finds no nonce fails with 'Nonce not found or expired',
\* whether the nonce was never issued, has expired or has been consumed.
C8_SameErrorForMissingNonce ==
    \A p \in SignInProcs :
        sp[p].cause \in {"never", "expired", "consumed"}
        => Done(p) /\ sp[p].result = "Unauthorized_NonceNotFound"
                   /\ sp[p].token = "none"

C8_Witness ==
    \E p \in SignInProcs, q \in SignInProcs :
        /\ Done(p) /\ sp[p].cause = "consumed"
        /\ Done(q) /\ sp[q].cause = "expired"
        /\ sp[p].result = sp[q].result

\* C9: a sign-in whose delete of the nonce failed ends as it would have with
\* the delete done: with the token for its wallet (or with the token issuer's
\* own failure), never with an error for the delete.
C9_DeleteFailureDoesNotFailSignIn ==
    \A p \in SignInProcs :
        Done(p) /\ sp[p].delFailed
        => \/ sp[p].result = "Success" /\ sp[p].token = sp[p].wallet
           \/ sp[p].result = "Internal_TokenFailed" /\ sp[p].token = "none"

C9_Witness ==
    \E p \in SignInProcs :
        /\ Done(p) /\ sp[p].delFailed
        /\ sp[p].result = "Success"
        /\ nonceStore[sp[p].wallet] = sp[p].nonce

\* The signature of the request is the wallet's own over the nonce it read.
SignedOverNonce(p) ==
    /\ sp[p].sig.fmt = "signed"
    /\ sp[p].sig.signer = sp[p].wallet
    /\ sp[p].sig.msg = sp[p].nonce

\* C10: a token is issued only to a request that read a nonce issued for its
\* own wallet and whose signature is the wallet's over that nonce, and its
\* subject is that wallet; a request that read a nonce and whose signature is
\* not that ends with an authentication error and no token.
C10_TokenOnlyAfterChallenge ==
    \A p \in SignInProcs :
        /\ sp[p].token # "none"
            => /\ sp[p].token = sp[p].wallet
               /\ sp[p].result = "Success"
               /\ sp[p].nonce # NoNonce
               /\ <<sp[p].wallet, sp[p].nonce>> \in issued
               /\ SignedOverNonce(p)
        /\ (sp[p].pc # "idle" /\ sp[p].nonce # NoNonce /\ ~SignedOverNonce(p))
            => /\ Done(p)
               /\ sp[p].token = "none"
               /\ sp[p].result =
                    IF sp[p].sig.fmt = "garbled" THEN "Unauthorized_VerifyFailed"
                    ELSE "Unauthorized_InvalidSignature"

C10_Witness ==
    \E p \in SignInProcs, q \in SignInProcs :
        /\ sp[p].token = "A2" /\ sp[p].nonce = 2
        /\ Done(q) /\ sp[q].result = "Unauthorized_InvalidSignature"

(***************************************************************************)
(* Properties of the ledger (SpecLedger) and of deposits (SpecDeposit).    *)
(***************************************************************************)
SignedAmount(r) == IF r.type = "DEPOSIT" THEN r.amount ELSE 0 - r.amount

\* The sum of the signed amounts of the first k rows of s.
RECURSIVE PrefixSum(_, _)
PrefixSum(s, k) == IF k = 0 THEN 0 ELSE PrefixSum(s, k - 1) + SignedAmount(s[k])

\* The rows that credit deposit d, by the path that wrote them.
CreditsVia(path, d) ==
    Cardinality({i \in 1..Len(txns) :
                    /\ txns[i].type = "DEPOSIT"
                    /\ txns[i].description = <<path, d>>})

\* C1: a deposit is credited exactly once however confirmDeposit and the
\* payment_intent.succeeded webhook interleave: for one payment intent (none
\* of whose payments failed) there are never both a DEPOSIT row written by the
\* confirm path and one written by the webhook path.
C1_DepositCreditedOnce ==
    \A d \in Intents :
        ~intent[d].failed =>
            ~( /\ CreditsVia("Deposit via Stripe", d) >= 1
               /\ CreditsVia("Deposit via Stripe Webhook", d) >= 1 )

\* C2: for every user the balance is the sum of the signed amounts of the
\* user's rows (DEPOSIT positive, WITHDRAWAL negative) from 0, and each row's
\* balance_after is the prefix sum at its position, concurrent calls included.
C2_BalanceIsSignedSum ==
    \A u \in Users :
        LET s == TxnsOf(u) IN
            /\ balance[u] = PrefixSum(s, Len(s))
            /\ \A k \in 1..Len(s) : s[k].balance_after = PrefixSum(s, k)

\* A debit has committed after another call on the same user committed between
\* the debit's read of the balance and its own commit.
C2_Witness ==
    \E p \in LedgerProcs :
        /\ lp[p].pc = "done"
        /\ lp[p].op = "sub"
        /\ lp[p].result = "ok"
        /\ lp[p].commitVer > lp[p].readVer
        /\ Len(TxnsOf(lp[p].user)) > lp[p].commitVer

\* C3: debits never take a balance below 0, and of two concurrent debits of one
\* user that each fit the balance they read but together exceed it, only one
\* succeeds.
C3_DebitNeverNegative ==
    /\ \A u \in Users : balance[u] >= 0
    /\ \A p, q \in LedgerProcs :
        ( /\ p # q
          /\ lp[p].op = "sub" /\ lp[q].op = "sub"
          /\ lp[p].user = lp[q].user
          /\ lp[p].pc = "done" /\ lp[q].pc = "done"
          /\ lp[p].readVer = lp[q].readVer
          /\ lp[p].amount + lp[q].amount > lp[p].read )
        => ~(lp[p].result = "ok" /\ lp[q].result = "ok")


\* The statuses the specification calls terminal.
TerminalStatuses == {"COMPLETED", "FAILED", "CANCELLED"}

\* C11: COMPLETED, FAILED and CANCELLED are terminal: no step of a confirm or
\* of a webhook handler changes the status of a deposit that is in one of them.
C11_TerminalStatusKept ==
    [][\A d \in Intents :
        deposits[d].status \in TerminalStatuses
            => deposits'[d].status = deposits[d].status]_vars

\* A confirm or a webhook handler is at work on deposit d.
InProgress(d) ==
    \E p \in LedgerProcs :
        /\ lp[p].dep = d
        /\ lp[p].op \in {"confirm", "wh_succeeded", "wh_failed"}
        /\ lp[p].pc \notin {"idle", "done"}

\* C12: when no confirm or webhook handler is at work on it, a COMPLETED
\* deposit has exactly one DEPOSIT row credited for it, also in runs where the
\* credit fails after the status was written.
C12_CompletedHasOneCredit ==
    \A d \in Intents :
        (deposits[d].status = "COMPLETED" /\ ~InProgress(d)) =>
            CreditsVia("Deposit via Stripe", d)
                + CreditsVia("Deposit via Stripe Webhook", d) = 1

\* C13: a confirmDeposit that ran alone and succeeded (the processor reported
\* succeeded) leaves the deposit COMPLETED and has appended one DEPOSIT row
\* with the deposit's amount and balance_after = the balance before + amount,
\* which is also the new_balance it returns and the user's balance.
C13_ConfirmRoundTrip ==
    \A p \in LedgerProcs :
        ( /\ lp[p].op = "confirm"
          /\ lp[p].pc = "done"
          /\ lp[p].result = "ok"
          /\ lp[p].alone )
        => LET d == lp[p].dep
               u == deposits[d].user
               row == txns[Len(txns)]
           IN /\ deposits[d].status = "COMPLETED"
              /\ Len(txns) >= 1
              /\ Len(TxnsOf(u)) = lp[p].readVer + 1
              /\ row.user = u
              /\ row.type = "DEPOSIT"
              /\ row.description = <<"Deposit via Stripe", d>>
              /\ row.amount = deposits[d].amount
              /\ row.balance_after = lp[p].read + deposits[d].amount
              /\ lp[p].upd = row.balance_after
              /\ balance[u] = row.balance_after

\* A deposit of 2 has been created, paid and confirmed, the confirm alone.
C13_Witness ==
    \E p \in LedgerProcs :
        /\ lp[p].op = "confirm"
        /\ lp[p].pc = "done"
        /\ lp[p].result = "ok"
        /\ lp[p].alone
        /\ lp[p].stripe = "succeeded"
        /\ deposits[lp[p].dep].amount = 2

\* The step ends request p at once with result r: the processor has not been
\* asked, and deposits, balances and rows are as they were.
RejectedWith(p, r) ==
    /\ lp'[p].pc = "done"
    /\ lp'[p].result = r
    /\ lp'[p].stripe = "none"
    /\ UNCHANGED <<deposits, intent, balance, txns>>

C15_WebhookIdempotent ==
    [][\A p \in LedgerProcs :
        LET d == lp'[p].dep IN
        /\ ( /\ lp[p].pc = "idle"
             /\ lp'[p].op = "wh_succeeded"
             /\ d \in Intents
             /\ deposits[d].status = "COMPLETED" )
            => RejectedWith(p, "ok")
        /\ ( /\ lp[p].pc # "done"
             /\ lp'[p].pc = "done"
             /\ lp'[p].op = "wh_succeeded"
             /\ lp'[p].alone
             /\ d \in Intents
             /\ deposits[d].status # "none" )
            => deposits'[d].status = "COMPLETED"]_vars

\* The event has been delivered to a deposit already credited by the webhook:
\* the handler, alone, has ended without touching anything.
C15_Witness ==
    \E p \in LedgerProcs :
        /\ lp[p].op = "wh_succeeded"
        /\ lp[p].pc = "done"
        /\ lp[p].result = "ok"
        /\ lp[p].alone
        /\ lp[p].dep \in Intents
        /\ lp[p].amount = 0
        /\ deposits[lp[p].dep].status = "COMPLETED"
        /\ CreditsVia("Deposit via Stripe Webhook", lp[p].dep) = 1
        /\ Len(txns) = 1

\* C16: a webhook event that names an intent without a deposit, or whose type
\* is neither payment_intent.succeeded nor payment_intent.payment_failed, ends
\* without error and leaves every deposit, balance and row unchanged.
C16_UnknownEventIgnored ==
    [][\A p \in LedgerProcs :
        (lp[p].pc = "idle" /\ lp'[p].event # "none") =>
            LET d == lp'[p].dep
                type == lp'[p].event
            IN ( \/ type \notin {"payment_intent.succeeded",
                                  "payment_intent.payment_failed"}
                 \/ d \notin Intents
                 \/ deposits[d].status = "none" )
                => RejectedWith(p, "ok")]_vars

\* An event of another type for a pending deposit and a payment-failed event
\* for an unknown intent have both been handled.
C16_Witness ==
    \E p, q \in LedgerProcs :
        /\ lp[p].pc = "done" /\ lp[q].pc = "done"
        /\ lp[p].event = "payment_intent.created"
        /\ lp[p].dep \in Intents
        /\ deposits[lp[p].dep].status = "PENDING"
        /\ lp[q].event = "payment_intent.payment_failed"
        /\ lp[q].dep = NoIntent
        /\ lp[p].result = "ok" /\ lp[q].result = "ok"

\* C17: a payment_intent.payment_failed webhook for an existing deposit sets
\* the deposit's status to FAILED and has no ledger effect: no step of its
\* handler changes a balance or the transaction history, and the handler never
\* enters the ledger.
C17_FailedWebhookNoLedgerEffect ==
    [][\A p \in LedgerProcs :
        LET d == lp'[p].dep IN
        ( /\ lp'[p].event = "payment_intent.payment_failed"
          /\ lp'[p].pc # lp[p].pc
          /\ d \in Intents
          /\ deposits[d].status # "none" )
        => /\ UNCHANGED <<balance, txns>>
           /\ lp'[p].pc \in {"f_update", "done"}
           /\ lp[p].pc = "f_update" =>
                /\ deposits'[d].status = "FAILED"
                /\ lp'[p].pc = "done"
                /\ lp'[p].result = "ok"]_vars

\* The payment-failed event has been handled for a deposit that had been
\* credited: the deposit is FAILED, the credit and the balance are still there.
C17_Witness ==
    \E p \in LedgerProcs :
        /\ lp[p].event = "payment_intent.payment_failed"
        /\ lp[p].pc = "done"
        /\ lp[p].dep \in Intents
        /\ deposits[lp[p].dep].status = "FAILED"
        /\ Len(txns) = 1
        /\ balance[deposits[lp[p].dep].user] = deposits[lp[p].dep].amount

\* C18: when the processor reports anything but succeeded to a confirmDeposit
\* (another status, or a refusal), the call ends with an error, it does not
\* make the deposit COMPLETED, and it changes no balance and writes no row: it
\* never enters the ledger.
C18_ConfirmNotSucceeded ==
    [][\A p \in LedgerProcs :
        LET d == lp[p].dep IN
        ( /\ lp[p].op = "confirm"
          /\ lp[p].pc \in {"c_stripe", "c_update"}
          /\ lp'[p].pc # lp[p].pc
          /\ lp'[p].stripe # "succeeded" )
        => /\ UNCHANGED <<balance, txns>>
           /\ lp'[p].pc \in {"c_update", "done"}
           /\ lp'[p].pc = "done" => lp'[p].result \notin {"ok", "none"}
           /\ deposits'[d].status = "COMPLETED"
                => deposits[d].status = "COMPLETED"
           /\ lp[p].pc = "c_update" => deposits'[d].status # "COMPLETED"]_vars

\* The processor has answered requires_action: the confirm has ended with the
\* confirmation-failed error, the deposit is PROCESSING and nothing is credited.
C18_Witness ==
    \E p \in LedgerProcs :
        /\ lp[p].op = "confirm"
        /\ lp[p].pc = "done"
        /\ lp[p].stripe = "requires_action"
        /\ lp[p].result = "BadRequest_ConfirmationFailed"
        /\ deposits[lp[p].dep].status = "PROCESSING"
        /\ txns = <<>>

\* C19: a swap whose amount exceeds the user's balance fails with the
\* insufficient-balance error; no transfer is sent, no transaction row is
\* written and the balance is unchanged.
C19_SwapInsufficientRejected ==
    [][\A p \in LedgerProcs :
        (/\ lp[p].pc = "idle"
         /\ lp'[p].op = "swap"
         /\ lp'[p].caller \in Users
         /\ ValidateSwap(lp'[p].caller, lp'[p].amount)
         /\ lp'[p].amount > balance[lp'[p].caller] * MillsPerCent)
        => (/\ lp'[p].pc = "done"
            /\ lp'[p].result = "BadRequest_InsufficientBalance"
            /\ UNCHANGED <<balance, txns, transfers>>)]_vars

\* A swap of more than is left of an earlier credit has been rejected.
C19_Witness ==
    \E p \in LedgerProcs :
        /\ lp[p].op = "swap"
        /\ lp[p].pc = "done"
        /\ lp[p].result = "BadRequest_InsufficientBalance"
        /\ lp[p].read > 0
        /\ lp[p].amount > lp[p].read * MillsPerCent
        /\ balance[lp[p].user] = lp[p].read

\* C20: a swap of amount a at price p that succeeds with no other operation
\* beside it debits exactly a: the balance is the balance it read less a, and
\* the user's last transaction is one new SWAP row with amount a, quantity
\* a / p, price p and balance_after equal to that balance (balance 100.00,
\* amount 40.00, price 50,000: quantity 0.0008, balance 60.00).
C20_SwapDebitsExactly ==
    \A p \in LedgerProcs :
        (/\ lp[p].op = "swap"
         /\ lp[p].pc = "done"
         /\ lp[p].result = "ok"
         /\ lp[p].alone)
        => LET u == lp[p].user
               rows == TxnsOf(u)
               row == rows[Len(rows)]
           IN  /\ Len(rows) = lp[p].readVer + 1
               /\ balance[u] * MillsPerCent
                    = lp[p].read * MillsPerCent - lp[p].amount
               /\ row.type = "SWAP"
               /\ row.amount * MillsPerCent = lp[p].amount
               /\ row.balance_after = balance[u]
               /\ row.btc_amount = SwapQuantity(lp[p].amount, lp[p].price)
               /\ row.btc_price = lp[p].price

\* The scenario itself: 40.00 swapped out of 100.00 at 50,000.
C20_Scenario ==
    \E p \in LedgerProcs :
        /\ lp[p].op = "swap"
        /\ lp[p].pc = "done"
        /\ lp[p].result = "ok"
        /\ lp[p].alone
        /\ lp[p].read = 10000
        /\ lp[p].amount = 40000
        /\ lp[p].price = 50000
        /\ balance[lp[p].user] = 6000
        /\ txns[Len(txns)].type = "SWAP"
        /\ txns[Len(txns)].amount = 4000
        /\ txns[Len(txns)].balance_after = 6000
        /\ txns[Len(txns)].btc_amount = 80000

\* C21: in every interleaving of swaps with credits and other swaps of the
\* same user, the balance_after of each SWAP row is the user's balance right
\* after that swap's decrement: the running sum of the signed amounts of the
\* user's rows up to and including it.
C21_SwapBalanceAfterIsRunningSum ==
    \A u \in Users :
        LET s == TxnsOf(u) IN
            \A k \in 1..Len(s) :
                s[k].type = "SWAP" => s[k].balance_after = PrefixSum(s, k)

\* C22: no interleaving of credits and swaps takes a user's balance below 0;
\* two swaps of one user that run side by side, each within the balance but
\* together above it, do not overdraw it.
C22_BalanceNeverNegative ==
    \A u \in Users : balance[u] >= 0

\* C23: a swap sends the transfer before it touches the ledger, and its debit
\* and its SWAP row are one unit: the step that sends the transfer leaves
\* balance and rows alone, only the commit step that follows it changes them,
\* and that step either debits the balance and appends the SWAP row or fails
\* the swap and changes neither.
C23_TransferBeforeAtomicDebit ==
    [][\A p \in LedgerProcs :
        (lp[p].op = "swap" /\ lp'[p].pc # lp[p].pc)
        => LET u == lp[p].user IN
           /\ (transfers' # transfers) <=> (lp'[p].pc = "s_update")
           /\ lp'[p].pc = "s_update"
                => /\ lp[p].pc = "s_transfer"
                   /\ transfers' = Append(transfers,
                        [user |-> u, amount |-> lp[p].amount,
                         quantity |->
                            SwapQuantity(lp[p].amount, lp[p].price)])
           /\ lp'[p].pc = "s_commit" => lp[p].pc = "s_update"
           /\ lp[p].pc # "s_commit" => UNCHANGED <<balance, txns>>
           /\ lp[p].pc = "s_commit"
                => \/ /\ lp'[p].result = "ok"
                      /\ balance'[u] = RoundToCents(balance[u] * MillsPerCent
                                                    - lp[p].amount)
                      /\ Len(txns') = Len(txns) + 1
                      /\ SubSeq(txns', 1, Len(txns)) = txns
                      /\ txns'[Len(txns')].type = "SWAP"
                      /\ txns'[Len(txns')].user = u
                   \/ /\ lp'[p].result = "Internal_SwapFailed"
                      /\ UNCHANGED <<balance, txns>>]_vars

\* The transfer of a swap that ran alone went out, its debit unit failed: the
\* swap has reported failure, the user holds the quantity, and balance and
\* rows are as the swap found them.
C23_Witness ==
    \E p \in LedgerProcs :
        /\ lp[p].op = "swap"
        /\ lp[p].pc = "done"
        /\ lp[p].alone
        /\ lp[p].result = "Internal_SwapFailed"
        /\ lp[p].amount = 40000
        /\ lp[p].upd = lp[p].read - 4000
        /\ Len(transfers) = 1
        /\ transfers[1] = [user |-> lp[p].user, amount |-> 40000,
                           quantity |-> 80000]
        /\ balance[lp[p].user] = lp[p].read
        /\ Len(TxnsOf(lp[p].user)) = lp[p].readVer
        /\ \A k \in 1..Len(txns) : txns[k].type # "SWAP"

\* C24: the transaction history is append-only: in every step of every
\* operation the rows there were are still there, unchanged and in the same
\* places, and new rows come after them.
C24_HistoryAppendOnly ==
    [][/\ Len(txns') >= Len(txns)
       /\ SubSeq(txns', 1, Len(txns)) = txns]_vars

\* A swap has written its row behind the rows of two credits.
C24_Witness ==
    /\ Len(txns) = 3
    /\ txns[1].type = "DEPOSIT"
    /\ txns[2].type = "DEPOSIT"
    /\ txns[3].type = "SWAP"

\* The users a request acts on: the owner of its deposit if it names one, else
\* the user it was called for.
ActsOn(r) ==
    IF r.dep \in AllIntents THEN {deposits[r.dep].user} ELSE {r.user}

GotUser(p) ==
    up[p].op = "get" /\ up[p].pc = "done" /\ up[p].result = "ok"

\* C26: a wallet address has at most one user row, however the lazy creations
\* race: a getCurrentUserOrCreate never ends in the conflict error, the loser
\* of the unique-index race answers with the row the winner created, two
\* answers for one wallet address carry the same id, and the answer for a
\* user created in the race has balance 0.
C26_OneUserPerWallet ==
    /\ \A r1, r2 \in userRows : r1.wallet = r2.wallet => r1 = r2
    /\ \A p \in UserProcs :
        /\ up[p].result # "Conflict_WalletExists"
        /\ GotUser(p) =>
            /\ \E r \in userRows : r.wallet = up[p].wallet /\ r.id = up[p].ret
            /\ up[p].wallet \in NewWallets => up[p].retBalance = 0
    /\ \A p, q \in UserProcs :
        (GotUser(p) /\ GotUser(q) /\ up[p].wallet = up[q].wallet)
            => up[p].ret = up[q].ret

\* Two calls for one unknown wallet address have raced: one created the row,
\* the other lost at the unique index, read again and answered with it.
C26_Witness ==
    \E p, q \in UserProcs :
        /\ GotUser(p) /\ GotUser(q)
        /\ up[p].wallet = up[q].wallet
        /\ up[p].wallet \in NewWallets
        /\ up[p].created
        /\ up[q].raced
        /\ up[p].ret = up[q].ret
        /\ up[q].retBalance = 0
        /\ Cardinality(FindUnique(userRows, up[p].wallet)) = 1

\* C28: the price cache is an optimisation only: a swap never fails because a
\* cache call failed while the price feed had an answer.
C28_CacheFailureNeverFailsSwap ==
    \A p \in LedgerProcs :
        (lp[p].op = "swap" /\ lp[p].pc = "done")
            => ~(lp[p].result = "Internal_SwapFailed" /\ lp[p].cause = "cache")

(***************************************************************************)
(* Properties of the cache's time to live (SpecTtl).                       *)
(***************************************************************************)
\* C27: a nonce lives for 120 seconds: a lookup made less than 120 seconds
\* after generateNonce wrote it finds it, one made more than 120 seconds
\* after does not; the cache manager reads the 120 as seconds.
C27_NonceLivesTwoMinutes ==
    looked["nonce"].done =>
        /\ looked["nonce"].age < NonceTtl * 1000 => looked["nonce"].hit
        /\ looked["nonce"].age > NonceTtl * 1000 => ~looked["nonce"].hit

(***************************************************************************)
(* Properties of failing ledger calls (SpecLedger).                        *)
(***************************************************************************)
\* C29: a ledger call that fails leaves the state as it was: addBalance and
\* subtractBalance for an absent user end with the user-not-found error,
\* subtractBalance of more than the balance it reads ends with the
\* insufficient-balance error, and no step of a call changes the balance or
\* the rows except the commit of a call that succeeds: a failed insert takes
\* the balance update back.
C29_LedgerErrorsChangeNothing ==
    [][\A p \in LedgerProcs :
        (lp[p].op \in {"add", "sub"} /\ lp'[p].pc # lp[p].pc)
        => LET u == lp[p].user IN
           /\ (lp[p].pc = "l_read" /\ u \notin Users)
                => /\ lp'[p].pc = "done"
                   /\ lp'[p].result = "Error_UserNotFound"
           /\ (/\ lp[p].pc = "l_read" /\ u \in Users
               /\ lp[p].op = "sub" /\ lp[p].amount > balance[u])
                => /\ lp'[p].pc = "done"
                   /\ lp'[p].result = "Error_InsufficientBalance"
           /\ ~(lp'[p].pc = "done" /\ lp'[p].result = "ok")
                => UNCHANGED <<balance, txns>>]_vars

\* A debit of more than the balance has been refused and a call whose insert
\* failed has been rolled back: the balance is the one earlier credit.
C29_Witness ==
    \E p, q \in LedgerProcs :
        /\ lp[p].op = "sub" /\ lp[p].pc = "done"
        /\ lp[p].result = "Error_InsufficientBalance"
        /\ lp[p].read > 0 /\ lp[p].amount > lp[p].read
        /\ lp[q].op = "add" /\ lp[q].pc = "done"
        /\ lp[q].result = "Error_Db"
        /\ lp[q].upd = lp[q].read + lp[q].amount
        /\ lp[q].user = lp[p].user
        /\ balance[lp[p].user] = lp[p].read
        /\ Len(TxnsOf(lp[p].user)) = 1

(***************************************************************************)
(* Properties of the profile update (SpecProfile).                         *)
(***************************************************************************)
\* The id and the wallet address of every user row.
UserKeys(rows) == {<<r.id, r.wallet>> : r \in rows}

\* C30: updateCurrentUser changes the display name and nothing else: the ids
\* and wallet addresses of the rows, the rows of other users, the balances,
\* the deposits and the transaction rows are as before it; for a wallet address
\* that has a user the row carries the new name when the call answers, and for
\* one that has none the call fails (not-found when the database answered) and
\* no row is created.
C30_UpdateChangesOnlyName ==
    [][\A p \in UserProcs :
        (up[p].pc = "idle" /\ up'[p].pc = "done" /\ up'[p].op = "update")
        => LET w == up'[p].wallet
               found == FindUnique(userRows, w)
           IN
            /\ UNCHANGED <<balance, txns, deposits, nextUserId>>
            /\ UserKeys(userRows') = UserKeys(userRows)
            /\ Cardinality(userRows') = Cardinality(userRows)
            /\ \A r \in userRows : r.wallet # w => r \in userRows'
            /\ found = {}
                => /\ up'[p].result \in {"NotFound_User", "Error_Db"}
                   /\ userRows' = userRows
            /\ up'[p].result = "NotFound_User" => found = {}
            /\ up'[p].result = "ok"
                => \E r \in found :
                    /\ up'[p].ret = r.id
                    /\ [r EXCEPT !.name = up'[p].name] \in userRows'
            /\ up'[p].result # "ok" => userRows' = userRows]_vars

\* The first user, with a balance, rows and an open deposit, has been renamed,
\* and an update for a wallet address without a user has been refused.
C30_Witness ==
    \E p, q \in UserProcs :
        /\ up[p].op = "update" /\ up[p].pc = "done" /\ up[p].result = "ok"
        /\ up[p].wallet = "u1"
        /\ \E r \in userRows :
            r.wallet = "u1" /\ r.id = 1 /\ r.name = up[p].name
        /\ balance["u1"] > 0 /\ TxnsOf("u1") # <<>>
        /\ deposits["pi_1"].user = "u1"
        /\ up[q].op = "update" /\ up[q].pc = "done"
        /\ up[q].result = "NotFound_User"
        /\ up[q].wallet \in NewWallets
        /\ \A r \in userRows : r.wallet # up[q].wallet

(***************************************************************************)
(* Properties of a deposit left in PROCESSING (SpecProcessing).            *)
(***************************************************************************)
\* The DEPOSIT rows written for deposit d, by either path.
Credits(d) ==
    CreditsVia("Deposit via Stripe", d)
        + CreditsVia("Deposit via Stripe Webhook", d)

\* C31: a deposit that a confirmDeposit left in PROCESSING is completed by the
\* payment_intent.succeeded webhook: a handler of the event that credits
\* appends one DEPOSIT row of the deposit's amount and leaves the deposit
\* COMPLETED, and, the event being delivered fairly, a deposit in PROCESSING
\* whose payment has succeeded is eventually COMPLETED with exactly one
\* DEPOSIT row credited for it.
C31_ProcessingIsCompleted ==
    /\ [][\A p \in LedgerProcs :
            ( /\ lp[p].op = "wh_succeeded" /\ lp[p].alone
              /\ lp[p].pc = "l_commit" /\ lp'[p].result = "ok" )
            => LET d == lp[p].dep IN
                /\ deposits'[d].status = "COMPLETED"
                /\ Len(txns') = Len(txns) + 1
                /\ txns'[Len(txns')].amount = deposits[d].amount
                /\ balance'[deposits[d].user]
                        = balance[deposits[d].user] + deposits[d].amount]_vars
    /\ \A d \in Intents :
        (deposits[d].status = "PROCESSING" /\ intent[d].status = "succeeded")
            ~> (deposits[d].status = "COMPLETED" /\ Credits(d) = 1)

(***************************************************************************)
(* Properties of credits and the deposits behind them (SpecDeposit).       *)
(***************************************************************************)
\* The positions of the DEPOSIT rows of user u.
DepositRows(u) ==
    {i \in 1..Len(txns) : txns[i].user = u /\ txns[i].type = "DEPOSIT"}

\* C32: every DEPOSIT row of a user is backed by a COMPLETED deposit of that
\* user, of the row's amount, and no two rows by the same deposit; so the
\* DEPOSIT rows of a user never add up to more than the user's COMPLETED
\* deposits.
C32_CreditBackedByCompletedDeposit ==
    \A u \in Users :
        /\ \A i \in DepositRows(u) :
            LET d == txns[i].description[2] IN
                /\ d \in AllIntents
                /\ deposits[d].user = u
                /\ deposits[d].status = "COMPLETED"
                /\ deposits[d].amount = txns[i].amount
        /\ \A i, j \in DepositRows(u) :
            txns[i].description[2] = txns[j].description[2] => i = j

(***************************************************************************)
(* Properties of failed sign-ins and of the nonce store (SpecAuth).        *)
(***************************************************************************)
\* Request p has ended because the signature did not verify.
FailedVerification(p) ==
    /\ sp[p].pc = "done"
    /\ sp[p].result \in {"Unauthorized_InvalidSignature",
                         "Unauthorized_VerifyFailed"}

\* C33: a sign-in that fails at the verification of the signature leaves the
\* stored nonce in place: a request that read a nonce and whose signature is
\* not the wallet's over that nonce ends with the invalid-signature error (the
\* verification-failed error when the verifier throws) and the store is as it
\* was; and a sign-in for the same wallet that follows one that failed so, with
\* a valid signature over the nonce still stored and a store that answers, has
\* its signature verified and ends with the token (or with the token signer's
\* own failure).
C33_FailedSignInKeepsNonce ==
    [][\A p \in SignInProcs :
        /\ (sp[p].pc = "idle" /\ sp'[p].pc # "idle" /\ sp'[p].nonce # NoNonce)
            => LET s == sp'[p].sig
                   w == sp'[p].wallet
                   good == /\ s.fmt = "signed" /\ s.signer = w
                           /\ s.msg = sp'[p].nonce
               IN /\ sp'[p].nonce = nonceStore[w]
                  /\ good => sp'[p].pc = "del"
                  /\ (~good /\ s.fmt = "signed")
                        => /\ sp'[p].pc = "done"
                           /\ sp'[p].result = "Unauthorized_InvalidSignature"
                  /\ s.fmt # "signed"
                        => /\ sp'[p].pc = "done"
                           /\ sp'[p].result = "Unauthorized_VerifyFailed"
                  /\ sp'[p].pc = "done" => nonceStore' = nonceStore
        /\ (/\ sp[p].pc = "idle" /\ sp'[p].pc # "idle"
            /\ sp'[p].wallet \in Wallets
            /\ nonceStore[sp'[p].wallet] # NoNonce
            /\ sp'[p].sig = Sig("signed", sp'[p].wallet,
                                nonceStore[sp'[p].wallet])
            /\ \E q \in SignInProcs \ {p} :
                /\ FailedVerification(q)
                /\ sp[q].wallet = sp'[p].wallet
                /\ sp[q].nonce = nonceStore[sp'[p].wallet])
            => \/ sp'[p].pc = "del" /\ sp'[p].nonce = nonceStore[sp'[p].wallet]
               \/ sp'[p].cause = "fault"
        /\ (sp[p].pc = "del" /\ sp'[p].pc = "done")
            => sp'[p].result \in {"Success", "Internal_TokenFailed"}]_vars

\* A sign-in with a signature by another key has failed, the nonce it read is
\* still stored, and a sign-in with the wallet's signature over that nonce,
\* verified, is at its delete.
C33_Witness ==
    \E p, q \in SignInProcs :
        /\ FailedVerification(p)
        /\ sp[p].nonce # NoNonce
        /\ nonceStore[sp[p].wallet] = sp[p].nonce
        /\ sp[q].pc = "del"
        /\ sp[q].wallet = sp[p].wallet
        /\ sp[q].nonce = sp[p].nonce
        /\ p < q


\* C34: a sign-in whose read of the nonce store failed ends with the internal
\* error 'Authentication service temporarily unavailable', not with the
\* nonce-not-found error, and holds no token.
C34_StoreFailureIsInternalError ==
    \A p \in SignInProcs :
        (sp[p].pc = "done" /\ sp[p].cause = "fault")
            => /\ sp[p].result = "Internal_CacheUnavailable"
               /\ sp[p].token = "none"


\* C35: the nonce generateNonce returns is live in the store when the call
\* returns: the step that issues nonce n for wallet w leaves the store mapping
\* w to n, also when the cache write fails.
C35_ReturnedNonceIsStored ==
    [][\A w \in Wallets :
        (<<w, nextNonce>> \in issued' /\ <<w, nextNonce>> \notin issued)
            => nonceStore'[w] = nextNonce]_vars

(***************************************************************************)
(* Properties of failed swaps and of what swaps pay out (SpecSwap).        *)
(***************************************************************************)
\* C36: a swap that fails at the price fetch or at the token transfer has no
\* effect on the ledger: no step of a swap up to and including the transfer
\* changes a balance or the rows; a swap whose price fetch fails ends there
\* with 'Swap transaction failed' and no transfer is sent for it; a swap
\* whose transfer is not sent ends there with the same error.
C36_FailedSwapLeavesLedger ==
    [][\A p \in LedgerProcs :
        (lp'[p].op = "swap" /\ lp'[p].pc # lp[p].pc)
        => /\ lp[p].pc \in {"idle", "s_price", "s_transfer"}
                => UNCHANGED <<balance, txns>>
           /\ lp[p].pc \in {"idle", "s_price"} => UNCHANGED transfers
           /\ (lp[p].pc = "s_price" /\ lp'[p].price = NoPrice)
                => /\ lp'[p].pc = "done"
                   /\ lp'[p].result = "Internal_SwapFailed"
           /\ lp'[p].pc = "s_transfer"
                => lp[p].pc = "s_price" /\ lp'[p].price # NoPrice
           /\ (lp[p].pc = "s_transfer" /\ transfers' = transfers)
                => /\ lp'[p].pc = "done"
                   /\ lp'[p].result = "Internal_SwapFailed"
           /\ lp'[p].pc = "s_update"
                => /\ lp[p].pc = "s_transfer"
                   /\ Len(transfers') = Len(transfers) + 1]_vars

\* A swap of 40.00 against a balance of 50.00 has failed at the price fetch
\* and another at the transfer: nothing was sent, the balance is 50.00 and
\* the credit is the only row.
C36_Witness ==
    \E p, q \in LedgerProcs :
        /\ lp[p].op = "swap" /\ lp[p].pc = "done"
        /\ lp[p].result = "Internal_SwapFailed"
        /\ lp[p].price = NoPrice /\ lp[p].cause = "feed"
        /\ lp[p].amount = 40000
        /\ lp[q].op = "swap" /\ lp[q].pc = "done"
        /\ lp[q].result = "Internal_SwapFailed"
        /\ lp[q].price # NoPrice
        /\ lp[q].amount = 40000
        /\ transfers = <<>>
        /\ balance["u1"] = 5000
        /\ Len(txns) = 1


\* The sum of the amounts (thousandths of a dollar) of the first k transfers
\* sent for user u.
RECURSIVE TransferredTo(_, _)
TransferredTo(u, k) ==
    IF k = 0 THEN 0
    ELSE TransferredTo(u, k - 1)
            + (IF transfers[k].user = u THEN transfers[k].amount ELSE 0)

\* The sum of the amounts (cents) of the DEPOSIT rows among the first k rows
\* of user u.
RECURSIVE CreditedTo(_, _)
CreditedTo(u, k) ==
    IF k = 0 THEN 0
    ELSE CreditedTo(u, k - 1)
            + (IF txns[k].user = u /\ txns[k].type = "DEPOSIT"
               THEN txns[k].amount ELSE 0)

\* C37: what has been paid out for a user is bounded by what the user was
\* credited: in every state the dollar amounts of the token transfers sent for
\* a user add up to at most the amounts credited to that user, concurrent
\* swaps included.
C37_TransfersBoundedByCredits ==
    \A u \in Users :
        TransferredTo(u, Len(transfers))
            <= CreditedTo(u, Len(txns)) * MillsPerCent

(***************************************************************************)
(* Properties of the webhook endpoint (SpecWebhook).                       *)
(***************************************************************************)
WebhookOps == {"wh_succeeded", "wh_failed", "wh_other"}

\* The signature header was made with the endpoint secret over this very body,
\* and its timestamp is within the tolerance.
SignatureVerifies(body, signature) ==
    /\ signature # NoSignature
    /\ signature.key = WebhookSecret
    /\ signature.over = body
    /\ ~signature.expired

\* C38: a webhook request is processed only after its signature has verified:
\* a request without raw body, without stripe-signature header, or whose
\* signature constructWebhookEvent rejects, fails, PaymentsService's handler is
\* not invoked for it, and deposits, balances and rows are unchanged; and
\* whenever the handler is invoked, the request carried a body and a signature
\* that verifies over it.
C38_WebhookOnlyAfterVerification ==
    [][/\ hook' # hook
        => /\ hook'.body = NoBody => hook'.result = "Error_NoBody"
           /\ (hook'.body # NoBody /\ hook'.signature = NoSignature)
                => hook'.result = "Error_NoSignature"
           /\ ( /\ hook'.body # NoBody /\ hook'.signature # NoSignature
                /\ ~SignatureVerifies(hook'.body, hook'.signature) )
                => hook'.result = "BadRequest_InvalidWebhookSignature"
           /\ hook'.result # "ok"
                => UNCHANGED <<deposits, intent, balance, txns, lp>>
       /\ \A p \in LedgerProcs :
            (lp[p].pc = "idle" /\ lp'[p].op \in WebhookOps)
                => /\ hook'.result = "ok"
                   /\ hook'.body # NoBody
                   /\ SignatureVerifies(hook'.body, hook'.signature)
                   /\ hook'.body.dep = lp'[p].dep
                   /\ hook'.body.type = lp'[p].event]_vars

\* A payment_intent.succeeded event for a deposit whose payment has not
\* succeeded, signed with another key, has been refused: the deposit is
\* PENDING and nothing has been credited; no handler is at work.
C38_Witness ==
    /\ hook.result = "BadRequest_InvalidWebhookSignature"
    /\ hook.body.type = "payment_intent.succeeded"
    /\ hook.signature.key # WebhookSecret
    /\ hook.signature.over = hook.body
    /\ intent[hook.body.dep].status = "open"
    /\ deposits[hook.body.dep].status = "PENDING"
    /\ balance[deposits[hook.body.dep].user] = 0
    /\ txns = <<>>
    /\ \A p \in LedgerProcs : lp[p].pc = "idle"

=============================================================================
